---- MODULE Spec2Model ----
(***************************************************************************)
(* Cinetrack backend: the content service (cache-or-fetch over the TVMaze  *)
(* API, backend/app/services), and the authenticated CRUD endpoints        *)
(* (backend/app/api/v1/endpoints).                                         *)
(*                                                                         *)
(* Python strings that the code concatenates, trims, lower-cases or        *)
(* searches are sequences of one-character strings; strings the code only  *)
(* passes along are TLA+ strings.  An Optional[...] value is a sequence of *)
(* length 0 (None) or 1.                                                   *)
(***************************************************************************)
EXTENDS Integers, Sequences, FiniteSets, TLC

VARIABLES
    cache,       \* Redis: key -> [data, expiry]
    now,         \* wall clock, seconds
    searchArgs,  \* the (content_type, language, page) the observed client sends
    last,        \* the last content-service call: arguments, outcome, effects
    resp,        \* the last HTTP response of the API layer
    keyProbe,    \* two searches whose cache keys are compared
    clearLog,    \* per content ID: what the last clear_content_cache meant for it
    users,       \* table User
    watchlist,   \* table Watchlist
    nextId,      \* the id sequences of User and Watchlist
    inflight,    \* the request that has run its checks and not yet its commit
    tokens,      \* per email: the token the last successful login returned
    ledger,      \* (user id, item id) of the rows POSTed and not since deleted
    analytics,   \* table Analytics: its rows and its id sequence
    setLog,      \* per key: when it was last set through RedisService, and the ttl
    tables,      \* tables BucketList, Recommendation, CustomList, CustomListItem,
                 \* WatchHistory and UserAchievement
    callers      \* the calls of get_content_by_id under way: where each stands,
                 \* what it holds and returned, and the values set so far

svcVars == <<cache, searchArgs, last>>
dbVars == <<users, watchlist, nextId, inflight, tokens, ledger>>
extVars == <<analytics, setLog, tables, callers>>
vars == <<cache, now, searchArgs, last, resp, keyProbe, clearLog, users, watchlist,
          nextId, inflight, tokens, ledger, analytics, setLog, tables, callers>>

-----------------------------------------------------------------------------
(* Bounds of the model *)

\* the clock stops here
MaxNow == 3600

\* Watchlist rows ever inserted
MaxItems == 2

\* the clock of the token expiry stops here
MaxTokenClock == 1800

\* one clock step
TickStep == 1800

\* Analytics rows ever inserted
MaxAnalytics == 2

\* the clock of the cache on its own stops here
MaxRedisNow == 7200

-----------------------------------------------------------------------------
(* Python str *)

UpperAlpha == <<"A", "B", "C", "D", "E", "F", "G", "H", "I", "J", "K", "L", "M",
                "N", "O", "P", "Q", "R", "S", "T", "U", "V", "W", "X", "Y", "Z">>
LowerAlpha == <<"a", "b", "c", "d", "e", "f", "g", "h", "i", "j", "k", "l", "m",
                "n", "o", "p", "q", "r", "s", "t", "u", "v", "w", "x", "y", "z">>

LowerMap ==
    [c \in {UpperAlpha[i] : i \in 1..Len(UpperAlpha)} |->
        LowerAlpha[CHOOSE i \in 1..Len(UpperAlpha) : UpperAlpha[i] = c]]

LowerChar(c) == IF c \in DOMAIN LowerMap THEN LowerMap[c] ELSE c

\* str.lower()
Lower(s) == [i \in 1..Len(s) |-> LowerChar(s[i])]

IsSpace(c) == c \in {" ", "\t", "\n"}

RECURSIVE LStrip(_)
LStrip(s) == IF s # <<>> /\ IsSpace(Head(s)) THEN LStrip(Tail(s)) ELSE s

RECURSIVE RStrip(_)
RStrip(s) ==
    IF s # <<>> /\ IsSpace(s[Len(s)]) THEN RStrip(SubSeq(s, 1, Len(s) - 1)) ELSE s

\* str.strip()
Strip(s) == RStrip(LStrip(s))

StartsWith(s, p) == Len(p) <= Len(s) /\ SubSeq(s, 1, Len(p)) = p

\* `needle in haystack`
Contains(haystack, needle) ==
    \E i \in 0..(Len(haystack) - Len(needle)) :
        SubSeq(haystack, i + 1, i + Len(needle)) = needle

\* str.replace(pat, "")
RECURSIVE RemoveAll(_, _)
RemoveAll(s, pat) ==
    IF s = <<>> THEN <<>>
    ELSE IF StartsWith(s, pat) THEN RemoveAll(SubSeq(s, Len(pat) + 1, Len(s)), pat)
    ELSE <<Head(s)>> \o RemoveAll(Tail(s), pat)

Digits == <<"0", "1", "2", "3", "4", "5", "6", "7", "8", "9">>

\* str(n) of a non-negative int, as the f-string formats it
RECURSIVE IntToStr(_)
IntToStr(n) ==
    IF n < 10 THEN <<Digits[n + 1]>>
    ELSE IntToStr(n \div 10) \o <<Digits[(n % 10) + 1]>>

\* None for an Optional[str]; no string of characters equals it
NoneStr == <<"<None>">>

\* truth value of an Optional[str]: None and "" are false
StrTruthy(s) == s # NoneStr /\ s # <<>>

\* `s or default`
StrOr(s, default) == IF StrTruthy(s) THEN s ELSE default

-----------------------------------------------------------------------------
(* JSON documents: [len, body], len being Python's len() of the container *)

DictDoc(n, body) == [kind |-> "dict", len |-> n, body |-> body]

\* truth value of an Optional document: None, {} and [] are false
Truthy(opt) == opt # <<>> /\ opt[1].len > 0

\* json.dumps / json.loads
JsonDumps(doc) == [json |-> doc]
JsonLoads(data) == data.json

-----------------------------------------------------------------------------
(* HTTP responses of the API layer *)

NoResp == [route |-> "none"]

Response(route, status, detail, body, headers) ==
    [route |-> route, status |-> status, detail |-> detail, body |-> body,
     headers |-> headers]

-----------------------------------------------------------------------------
(* RedisService *)

default_ttl == 3600

\* ttl: Optional[int] = None
NoTtl == 0

\* redis.get: an expired key is gone
RedisGet(c, key, t) ==
    IF key \in DOMAIN c /\ t < c[key].expiry THEN <<c[key].data>> ELSE <<>>

get_cached_data(c, key, t) ==
    LET data == RedisGet(c, key, t)
    IN IF data # <<>> THEN <<JsonLoads(data[1])>> ELSE <<>>

\* the ttl argument ignored
set_cached_data_default(c, key, doc, ttl, t) ==
    LET entry == [data |-> JsonDumps(doc), expiry |-> t + default_ttl]
    IN [k \in (DOMAIN c) \cup {key} |-> IF k = key THEN entry ELSE c[k]]

\* the key set only when it holds nothing (SET NX)
set_cached_data_if_absent(c, key, doc, ttl, t) ==
    LET ttl1 == IF ttl # 0 THEN ttl ELSE default_ttl
        entry == [data |-> JsonDumps(doc), expiry |-> t + ttl1]
    IN [k \in (DOMAIN c) \cup {key} |-> IF k = key /\ k \notin DOMAIN c THEN entry ELSE c[k]]

\* ttl = ttl or self.default_ttl; redis.setex(key, ttl, json.dumps(data))
set_cached_data(c, key, doc, ttl, t) ==
    LET ttl1 == IF ttl # 0 THEN ttl ELSE default_ttl
        entry == [data |-> JsonDumps(doc), expiry |-> t + ttl1]
    IN [k \in (DOMAIN c) \cup {key} |-> IF k = key THEN entry ELSE c[k]]

\* redis.delete(key): the key is a literal name, never a pattern
delete_cached_data(c, key) ==
    [k \in (DOMAIN c) \ {key} |-> c[k]]

\* Redis drops the entries whose time has come
Expire(c, t) ==
    [k \in {x \in DOMAIN c : t < c[x].expiry} |-> c[k]]

-----------------------------------------------------------------------------
(* ContentService._make_request *)

\* stop=stop_after_attempt(3)
StopAfterAttempt == 3

\* retry(...) is given no reraise argument: when the attempts are used up
\* tenacity raises RetryError, not the last attempt's exception
RetryReraise == FALSE

OkOutcome == [kind |-> "ok", code |-> 200]
TransportFailure == [kind |-> "transport", code |-> 0]
HttpError(code) == [kind |-> "http", code |-> code]

\* what one client.get + raise_for_status can end in
Outcomes == {OkOutcome, TransportFailure, HttpError(404), HttpError(429), HttpError(500)}

\* failures that do not depend on what is asked for
TransientFailures == {TransportFailure, HttpError(429), HttpError(500)}

\* upstream behaviours under one call: n attempts fail alike, the next get the
\* upstream's answer (OkOutcome, or HttpError(404) for what it does not have)
Attempts(answer) ==
    {[i \in 1..StopAfterAttempt |-> IF i <= n THEN f ELSE answer] :
        n \in 0..StopAfterAttempt, f \in TransientFailures}

RateLimitMessage ==
    <<"R", "a", "t", "e", " ", "l", "i", "m", "i", "t", " ", "e", "x", "c", "e",
      "e", "d", "e", "d", ".", " ", "P", "l", "e", "a", "s", "e", " ", "t", "r",
      "y", " ", "a", "g", "a", "i", "n", " ", "l", "a", "t", "e", "r", ".">>

HTTPStatusErrorName ==
    <<"H", "T", "T", "P", "S", "t", "a", "t", "u", "s", "E", "r", "r", "o", "r">>
ConnectErrorName == <<"C", "o", "n", "n", "e", "c", "t", "E", "r", "r", "o", "r">>
RetryErrorName == <<"R", "e", "t", "r", "y", "E", "r", "r", "o", "r">>

\* the exception one failed attempt raises; message is str(e)
AttemptException(o) ==
    IF o.kind = "http"
    THEN [type |-> "HTTPStatusError", status |-> o.code,
          message |-> HTTPStatusErrorName \o <<" ">> \o IntToStr(o.code)]
    ELSE [type |-> "ConnectError", status |-> 0, message |-> ConnectErrorName]

\* tenacity.RetryError wrapping the last attempt; str(e) names the wrapped type only
RetryError(e) ==
    [type |-> "RetryError", status |-> 0,
     message |-> RetryErrorName \o <<"[">> \o
                 (IF e.type = "HTTPStatusError" THEN HTTPStatusErrorName
                  ELSE ConnectErrorName) \o <<"]">>]

\* raise Exception("Rate limit exceeded. Please try again later.")
RateLimitException == [type |-> "Exception", status |-> 0, message |-> RateLimitMessage]

\* a method call on None: AttributeError("'NoneType' object has no attribute '...'")
NoneAttributeError(attr) ==
    [type |-> "AttributeError", status |-> 0,
     message |-> <<"'", "N", "o", "n", "e", "T", "y", "p", "e", "'", " ", "o", "b", "j",
                   "e", "c", "t", " ", "h", "a", "s", " ", "n", "o", " ", "a", "t", "t",
                   "r", "i", "b", "u", "t", "e", " ", "'">> \o attr \o <<"'">>]

\* no retry: the first attempt decides
Retrying_once(att) ==
    IF att[1].kind = "ok"
    THEN [ok |-> TRUE, attempts |-> 1, exc |-> <<>>]
    ELSE [ok |-> FALSE, attempts |-> 1, exc |-> <<AttemptException(att[1])>>]

\* the decorated _request: attempts until one succeeds or the third has failed
Retrying(att) ==
    LET good == {i \in 1..StopAfterAttempt : att[i].kind = "ok"}
        first == CHOOSE i \in good : \A j \in good : i <= j
        lastExc == AttemptException(att[StopAfterAttempt])
    IN IF good # {}
       THEN [ok |-> TRUE, attempts |-> first, exc |-> <<>>]
       ELSE [ok |-> FALSE, attempts |-> StopAfterAttempt,
             exc |-> <<IF RetryReraise THEN lastExc ELSE RetryError(lastExc)>>]

\* try: return await _request()
\* except httpx.HTTPStatusError as e: 429 -> Exception(rate limit), else re-raise
make_request(att) ==
    LET r == Retrying(att)
    IN IF r.ok THEN r
       ELSE IF r.exc[1].type = "HTTPStatusError" /\ r.exc[1].status = 429
            THEN [r EXCEPT !.exc = <<RateLimitException>>]
            ELSE r

-----------------------------------------------------------------------------
(* Upstream payloads of search/shows *)

Show(id, name, type, language) ==
    [id |-> id, name |-> name, type |-> type, language |-> language,
     summary |-> <<"<", "p", ">", "H", "i", "<", "/", "p", ">">>,
     image |-> [medium |-> "m.jpg", original |-> "o.jpg"],
     premiered |-> "2020-01-01", rating |-> [average |-> 8],
     genres |-> <<"Drama">>, status |-> "Ended", runtime |-> 60]

Show1 == Show(1, "One", <<"S", "c", "r", "i", "p", "t", "e", "d">>,
              <<"E", "n", "g", "l", "i", "s", "h">>)
Show2 == Show(2, "Two", <<"R", "e", "a", "l", "i", "t", "y">>,
              <<"S", "p", "a", "n", "i", "s", "h">>)

\* a show whose language is null (NoneStr stands for a JSON null)
Show3 == Show(3, "Three", <<"R", "e", "a", "l", "i", "t", "y">>, NoneStr)

\* one element of the search answer: {"score": ..., "show": {...}}
Hit(show) == [show |-> <<show>>]

\* an element without a show
NoShowHit == [show |-> <<>>]

SearchPayloads ==
    {<<>>, <<Hit(Show2)>>, <<Hit(Show2), Hit(Show1)>>, <<Hit(Show1), NoShowHit, Hit(Show2)>>,
     <<Hit(Show1), Hit(Show3)>>}

-----------------------------------------------------------------------------
(* ContentService.search_content *)

\* len(query.strip()) < 2
MinQueryLen == 2

\* ttl=3600 of the search results
SearchTTL == 3600

SearchPrefix == <<"s", "e", "a", "r", "c", "h">>
AllSentinel == <<"a", "l", "l">>

\* the key built from the trimmed, lower-cased query
search_cache_key_normalised(query, content_type, language, page) ==
    SearchPrefix \o <<":">> \o Lower(Strip(query)) \o <<":">>
        \o StrOr(content_type, AllSentinel) \o <<":">> \o StrOr(language, AllSentinel)
        \o <<":">> \o IntToStr(page)

\* f"search:{query}:{content_type or 'all'}:{language or 'all'}:{page}"
search_cache_key(query, content_type, language, page) ==
    SearchPrefix \o <<":">> \o query \o <<":">> \o StrOr(content_type, AllSentinel)
        \o <<":">> \o StrOr(language, AllSentinel) \o <<":">> \o IntToStr(page)

\* the length check without the strip
IsShortQuery_unstripped(query) == ~StrTruthy(query) \/ Len(query) < MinQueryLen

\* if not query or len(query.strip()) < 2
IsShortQuery(query) == ~StrTruthy(query) \/ Len(Strip(query)) < MinQueryLen

EmptyPage(page) ==
    DictDoc(4, [results |-> <<>>, page |-> page, total_pages |-> 0, total_results |-> 0])

\* the content_type filter keeps the show
TypeFilterKeeps(show, content_type) ==
    ~StrTruthy(content_type) \/ Contains(Lower(show.type), Lower(content_type))

\* the language filter keeps the show
LanguageFilterKeeps(show, language) ==
    ~StrTruthy(language) \/ Lower(show.language) = Lower(language)

processed_result(show) ==
    [id |-> show.id, title |-> show.name,
     overview |-> RemoveAll(RemoveAll(show.summary, <<"<", "p", ">">>),
                            <<"<", "/", "p", ">">>),
     poster_url |-> show.image.medium, backdrop_url |-> show.image.original,
     release_date |-> show.premiered, rating |-> show.rating.average,
     genres |-> show.genres, status |-> show.status, runtime |-> show.runtime,
     type |-> Lower(show.type), language |-> Lower(show.language)]

\* the loop over the upstream answer
RECURSIVE process_results(_, _, _)
process_results(response, content_type, language) ==
    IF response = <<>> THEN <<>>
    ELSE LET result == Head(response)
             rest == process_results(Tail(response), content_type, language)
         IN IF result.show = <<>> THEN rest
            ELSE IF ~TypeFilterKeeps(result.show[1], content_type) THEN rest
            ELSE IF ~LanguageFilterKeeps(result.show[1], language) THEN rest
            ELSE IF {"id", "title"} \subseteq DOMAIN processed_result(result.show[1])
                 THEN <<processed_result(result.show[1])>> \o rest
                 ELSE rest

\* None.lower()
NoneLowerError == NoneAttributeError(<<"l", "o", "w", "e", "r">>)

\* the loop body raises on this show: .lower() of a null type or language, at
\* the statements the two filters let it reach
show_raises(show, content_type, language) ==
    IF StrTruthy(content_type) /\ show.type = NoneStr THEN TRUE
    ELSE IF ~TypeFilterKeeps(show, content_type) THEN FALSE
    ELSE IF show.language = NoneStr THEN TRUE
    ELSE IF ~LanguageFilterKeeps(show, language) THEN FALSE
    ELSE show.type = NoneStr

\* the loop over the upstream answer ends in an exception
process_raises(response, content_type, language) ==
    \E i \in 1..Len(response) :
        /\ response[i].show # <<>>
        /\ show_raises(response[i].show[1], content_type, language)

\* the page number left at its default
response_data_first_page(processed, page) ==
    DictDoc(4, [results |-> processed, page |-> 1,
                total_pages |-> IF processed # <<>> THEN 1 ELSE 0,
                total_results |-> Len(processed)])

response_data(processed, page) ==
    DictDoc(4, [results |-> processed, page |-> page,
                total_pages |-> IF processed # <<>> THEN 1 ELSE 0,
                total_results |-> Len(processed)])

\* the condition inverted
SearchCaches_inverted(processed) == processed = <<>>

\* if processed_results: set_cached_data(cache_key, response_data, ttl=3600)
SearchCaches(processed) == processed # <<>>

\* the part of search_content after a cache miss: r is what _make_request did,
\* raised whether the loop over the answer raised, processed the filtered
\* results if it did not
search_fetch(base, c, t, key, page, r, payload, raised, processed) ==
    IF ~r.ok
    THEN [base EXCEPT !.ok = FALSE, !.exc = r.exc, !.upstream = r.attempts]
    ELSE IF payload = <<>>
    THEN [base EXCEPT !.result = <<EmptyPage(page)>>, !.upstream = r.attempts]
    ELSE IF raised
    THEN [base EXCEPT !.ok = FALSE, !.exc = <<NoneLowerError>>, !.upstream = r.attempts]
    ELSE IF SearchCaches(processed)
    THEN [base EXCEPT !.result = <<response_data(processed, page)>>,
                      !.upstream = r.attempts, !.writes = 1,
                      !.cache = set_cached_data(c, key, response_data(processed, page),
                                                SearchTTL, t)]
    ELSE [base EXCEPT !.result = <<response_data(processed, page)>>,
                      !.upstream = r.attempts]

\* the part of search_content after the query length check
search_lookup(base, c, t, key, cached, content_type, language, page, att, payload) ==
    IF Truthy(cached)
    THEN [base EXCEPT !.result = cached, !.hit = TRUE]
    ELSE search_fetch(base, c, t, key, page, make_request(att), payload,
                      process_raises(payload, content_type, language),
                      process_results(payload, content_type, language))

\* One call of search_content on cache c at time t; att and payload are what the
\* upstream does if it is asked.  The outcome: what is returned or raised, the
\* cache afterwards, and what the call did on the way.
search_content(c, t, query, content_type, language, page, att, payload) ==
    LET key == search_cache_key(query, content_type, language, page)
        base == [key |-> key, ok |-> TRUE, result |-> <<>>, exc |-> <<>>, cache |-> c,
                 hit |-> FALSE, reads |-> 1, writes |-> 0, upstream |-> 0]
    IN IF IsShortQuery(query)
       THEN [base EXCEPT !.result = <<EmptyPage(page)>>, !.reads = 0]
       ELSE search_lookup(base, c, t, key, get_cached_data(c, key, t),
                          content_type, language, page, att, payload)

-----------------------------------------------------------------------------
(* Upstream payloads of shows/{id} *)

\* the IDs asked for; the upstream has the shows of UpstreamShows only
ContentIds == {<<"1">>, <<"2">>, <<"9">>}

\* the fields of a show that the upstream may leave out or send as null
OptionalFields == {"summary", "image", "rating", "network", "webChannel"}

\* None as a value of a document
NoneValue == "<None>"

\* opt tells, for each optional field, whether it is "present", "absent" or
\* "null"; the value written here is the one of a present field
ShowDetail(id, name) ==
    [id |-> id, name |-> name, opt |-> [f \in OptionalFields |-> "present"],
     summary |-> <<"<", "p", ">", "H", "i", "<", "/", "p", ">">>,
     image |-> [medium |-> "m.jpg", original |-> "o.jpg"],
     premiered |-> "2020-01-01", rating |-> [average |-> 8],
     genres |-> <<"Drama">>, status |-> "Ended", runtime |-> 60,
     network |-> [name |-> "HBO"], schedule |-> [time |-> "21:00"],
     webChannel |-> [name |-> "Max"], externals |-> [imdb |-> "tt1"],
     updated |-> 1700000000]

UpstreamShows ==
    [id \in {<<"1">>, <<"2">>} |->
        IF id = <<"1">> THEN ShowDetail(1, "One")
        ELSE [ShowDetail(2, "Two") EXCEPT !.genres = <<>>]]

\* what the upstream answers to shows/{id} when it answers
ShowAnswer(id) == IF id \in DOMAIN UpstreamShows THEN OkOutcome ELSE HttpError(404)

-----------------------------------------------------------------------------
(* ContentService.get_content_by_id and clear_content_cache *)

\* self.cache_ttl = 86400
cache_ttl == 86400

ContentPrefix == <<"c", "o", "n", "t", "e", "n", "t">>

\* f"content:{content_type}:{tvmaze_id}"
content_cache_key(content_type, tvmaze_id) ==
    ContentPrefix \o <<":">> \o content_type \o <<":">> \o tvmaze_id

\* the dict literal raises: response.get(f, default) is None for a null field,
\* and the method called on it is the first to fail
processed_content_raises(response) ==
    IF response.opt["summary"] = "null"
    THEN <<NoneAttributeError(<<"r", "e", "p", "l", "a", "c", "e">>)>>
    ELSE IF \E f \in OptionalFields : response.opt[f] = "null"
    THEN <<NoneAttributeError(<<"g", "e", "t">>)>>
    ELSE <<>>

\* the dict literal when it does not raise: an absent summary gives "", an
\* absent nested object gives None
processed_content(response) ==
    LET Nested(f, value) == IF response.opt[f] = "absent" THEN NoneValue ELSE value
    IN DictDoc(16,
        [id |-> response.id, title |-> response.name,
         overview |-> IF response.opt["summary"] = "absent" THEN <<>>
                      ELSE RemoveAll(RemoveAll(response.summary, <<"<", "p", ">">>),
                                     <<"<", "/", "p", ">">>),
         poster_url |-> Nested("image", response.image.medium),
         backdrop_url |-> Nested("image", response.image.original),
         release_date |-> response.premiered,
         rating |-> Nested("rating", response.rating.average),
         genres |-> response.genres, status |-> response.status,
         runtime |-> response.runtime, type |-> "tv",
         network |-> Nested("network", response.network.name),
         schedule |-> response.schedule,
         web_channel |-> Nested("webChannel", response.webChannel.name),
         externals |-> response.externals,
         updated |-> response.updated])

\* the part of get_content_by_id after a cache miss; response is the answer of
\* the upstream when it gives one
content_fetch(base, c, t, key, r, response) ==
    IF ~r.ok
    THEN [base EXCEPT !.ok = FALSE, !.exc = r.exc, !.upstream = r.attempts]
    ELSE IF processed_content_raises(response) # <<>>
    THEN [base EXCEPT !.ok = FALSE, !.exc = processed_content_raises(response),
                      !.upstream = r.attempts]
    ELSE [base EXCEPT !.result = <<processed_content(response)>>,
                      !.upstream = r.attempts, !.writes = 1,
                      !.cache = set_cached_data(c, key, processed_content(response),
                                                cache_ttl, t)]

content_lookup(base, c, t, key, cached, response, att) ==
    IF Truthy(cached)
    THEN [base EXCEPT !.result = cached, !.hit = TRUE]
    ELSE content_fetch(base, c, t, key, make_request(att), response)

\* One call of get_content_by_id on cache c at time t; att is what the upstream
\* does if it is asked and response what it answers when it answers.
get_content_answered(c, t, tvmaze_id, content_type, att, response) ==
    LET key == content_cache_key(content_type, tvmaze_id)
        base == [key |-> key, ok |-> TRUE, result |-> <<>>, exc |-> <<>>, cache |-> c,
                 hit |-> FALSE, reads |-> 1, writes |-> 0, upstream |-> 0]
    IN content_lookup(base, c, t, key, get_cached_data(c, key, t), response, att)

\* get_content_by_id against the upstream that has the shows of UpstreamShows
get_content_by_id(c, t, tvmaze_id, content_type, att) ==
    get_content_answered(c, t, tvmaze_id, content_type, att,
        IF tvmaze_id \in DOMAIN UpstreamShows THEN UpstreamShows[tvmaze_id]
        ELSE ShowDetail(0, ""))

\* TypeError: `await redis_service.redis.keys("content:*")` awaits the list that
\* the synchronous client returns
AwaitListError ==
    [type |-> "TypeError", status |-> 0,
     message |-> <<"T", "y", "p", "e", "E", "r", "r", "o", "r">>]

\* One call of clear_content_cache; tvmaze_id is an Optional[str].
\* With an ID: delete_cached_data(f"content:*:{tvmaze_id}").
clear_content_cache(c, tvmaze_id) ==
    IF tvmaze_id # <<>> /\ StrTruthy(tvmaze_id[1])
    THEN [ok |-> TRUE, exc |-> <<>>,
          cache |-> delete_cached_data(c, content_cache_key(<<"*">>, tvmaze_id[1]))]
    ELSE [ok |-> FALSE, exc |-> <<AwaitListError>>, cache |-> c]

-----------------------------------------------------------------------------
(* ContentService: credits, similar, trending, genres *)

\* a JSON array
ListDoc(items) == [kind |-> "list", len |-> Len(items), body |-> items]

\* ttl=3600 of similar content
SimilarTTL == 3600

\* ttl=3600 of trending content
TrendingTTL == 3600

\* ttl=86400 of the genres
GenresTTL == 86400

\* response[:20]
TrendingLimit == 20

\* the outcome of an operation before it has done anything
OpBase(key, c, reads) ==
    [key |-> key, ok |-> TRUE, result |-> <<>>, exc |-> <<>>, cache |-> c,
     hit |-> FALSE, reads |-> reads, writes |-> 0, upstream |-> 0]

\* f"credits:{content_type}:{tvmaze_id}"
credits_cache_key(content_type, tvmaze_id) ==
    <<"c", "r", "e", "d", "i", "t", "s", ":">> \o content_type \o <<":">> \o tvmaze_id

\* one element of shows/{id}/cast turned into a cast member
cast_member(person) ==
    [id |-> person.person.id, name |-> person.person.name,
     character |-> person.character.name,
     profile_url |-> person.person.image.medium]

\* shows/{id}/cast of the shows the upstream has
UpstreamCast ==
    [id \in {<<"1">>, <<"2">>} |->
        IF id = <<"1">>
        THEN <<[person |-> [id |-> 7, name |-> "Ann", image |-> [medium |-> "a.jpg"]],
                character |-> [name |-> "Lead"]]>>
        ELSE <<>>]

\* One call of get_cast_and_crew on cache c at time t.
get_cast_and_crew(c, t, tvmaze_id, content_type, att) ==
    LET key == credits_cache_key(content_type, tvmaze_id)
        base == OpBase(key, c, 1)
        cached == get_cached_data(c, key, t)
        r == make_request(att)
        response == UpstreamCast[tvmaze_id]
        result == DictDoc(2, [cast |-> [i \in 1..Len(response) |-> cast_member(response[i])],
                              crew |-> <<>>])
    IN IF Truthy(cached) THEN [base EXCEPT !.result = cached, !.hit = TRUE]
       ELSE IF ~r.ok THEN [base EXCEPT !.ok = FALSE, !.exc = r.exc, !.upstream = r.attempts]
       ELSE [base EXCEPT !.result = <<result>>, !.upstream = r.attempts, !.writes = 1,
                         !.cache = set_cached_data(c, key, result, cache_ttl, t)]

\* the processed_result of get_similar_content and get_trending_content
tv_result(result) ==
    [id |-> result.id, title |-> result.name,
     overview |-> RemoveAll(RemoveAll(result.summary, <<"<", "p", ">">>),
                            <<"<", "/", "p", ">">>),
     poster_url |-> result.image.medium, backdrop_url |-> result.image.original,
     release_date |-> result.premiered, rating |-> result.rating.average,
     genres |-> result.genres, status |-> result.status, runtime |-> result.runtime,
     type |-> "tv"]

\* f"similar:{content_type}:{tvmaze_id}:{page}"
similar_cache_key(content_type, tvmaze_id, page) ==
    <<"s", "i", "m", "i", "l", "a", "r", ":">> \o content_type \o <<":">> \o tvmaze_id
        \o <<":">> \o IntToStr(page)

\* {"results": [], "page": 1, "total_pages": 1, "total_results": 0}
NoSimilar ==
    DictDoc(4, [results |-> <<>>, page |-> 1, total_pages |-> 1, total_results |-> 0])

\* if str(result.get("id")) != str(tvmaze_id): processed_results.append(...)
RECURSIVE similar_results(_, _)
similar_results(response, tvmaze_id) ==
    IF response = <<>> THEN <<>>
    ELSE IF IntToStr(Head(response).id) # tvmaze_id
    THEN <<tv_result(Head(response))>> \o similar_results(Tail(response), tvmaze_id)
    ELSE similar_results(Tail(response), tvmaze_id)

\* the empty page cached when the genre query fails
similar_fetch_caches_failure(base, t, show, tvmaze_id, page, r, response) ==
    IF ~Truthy(show) \/ show[1].body.genres = <<>> THEN [base EXCEPT !.result = <<NoSimilar>>]
    ELSE [base EXCEPT !.ok = r.ok, !.exc = r.exc, !.upstream = @ + r.attempts,
                      !.writes = @ + 1,
                      !.cache = set_cached_data(base.cache, base.key, NoSimilar,
                                                SimilarTTL, t)]

\* the part of get_similar_content after get_content_by_id returned show; r is
\* what _make_request("shows", {"genres": genres[0]}) did and response its answer
similar_fetch(base, t, show, tvmaze_id, page, r, response) ==
    LET processed == similar_results(response, tvmaze_id)
        data == DictDoc(4, [results |-> processed, page |-> page, total_pages |-> 1,
                            total_results |-> Len(processed)])
    IN IF ~Truthy(show) THEN [base EXCEPT !.result = <<NoSimilar>>]
       ELSE IF show[1].body.genres = <<>> THEN [base EXCEPT !.result = <<NoSimilar>>]
       ELSE IF ~r.ok
       THEN [base EXCEPT !.ok = FALSE, !.exc = r.exc, !.upstream = @ + r.attempts]
       ELSE [base EXCEPT !.result = <<data>>, !.upstream = @ + r.attempts,
                         !.writes = @ + 1,
                         !.cache = set_cached_data(base.cache, base.key, data,
                                                   SimilarTTL, t)]

\* One call of get_similar_content on cache c at time t; att1 is what the
\* upstream does under get_content_by_id, att2 and response under the genre query.
get_similar_content(c, t, tvmaze_id, content_type, page, att1, att2, response) ==
    LET key == similar_cache_key(content_type, tvmaze_id, page)
        base == OpBase(key, c, 1)
        cached == get_cached_data(c, key, t)
        show == get_content_by_id(c, t, tvmaze_id, content_type, att1)
        mid == [base EXCEPT !.cache = show.cache, !.reads = @ + show.reads,
                            !.writes = show.writes, !.upstream = show.upstream]
    IN IF Truthy(cached) THEN [base EXCEPT !.result = cached, !.hit = TRUE]
       ELSE IF ~show.ok THEN [mid EXCEPT !.ok = FALSE, !.exc = show.exc]
       ELSE similar_fetch(mid, t, show.result, tvmaze_id, page, make_request(att2),
                          response)

\* f"trending:{content_type}:{time_window}"
trending_cache_key(content_type, time_window) ==
    <<"t", "r", "e", "n", "d", "i", "n", "g", ":">> \o content_type \o <<":">>
        \o time_window

\* One call of get_trending_content on cache c at time t.
get_trending_content(c, t, content_type, time_window, att, response) ==
    LET key == trending_cache_key(content_type, time_window)
        base == OpBase(key, c, 1)
        cached == get_cached_data(c, key, t)
        r == make_request(att)
        top == SubSeq(response, 1, IF Len(response) < TrendingLimit THEN Len(response)
                                   ELSE TrendingLimit)
        result == ListDoc([i \in 1..Len(top) |-> tv_result(top[i])])
    IN IF Truthy(cached) THEN [base EXCEPT !.result = cached, !.hit = TRUE]
       ELSE IF ~r.ok THEN [base EXCEPT !.ok = FALSE, !.exc = r.exc, !.upstream = r.attempts]
       ELSE [base EXCEPT !.result = <<result>>, !.upstream = r.attempts, !.writes = 1,
                         !.cache = set_cached_data(c, key, result, TrendingTTL, t)]

\* f"genres:{content_type}"
genres_cache_key(content_type) == <<"g", "e", "n", "r", "e", "s", ":">> \o content_type

\* the genre names the upstream uses, in sorted() order
GenreNames == <<"Comedy", "Drama">>

\* [{"id": i, "name": genre} for i, genre in enumerate(sorted(genres))]
genres_list(response) ==
    LET genres == UNION {{s.genres[i] : i \in 1..Len(s.genres)} :
                            s \in {response[j] : j \in 1..Len(response)}}
        names == SelectSeq(GenreNames, LAMBDA g : g \in genres)
    IN ListDoc([i \in 1..Len(names) |-> [id |-> i - 1, name |-> names[i]]])

\* the write without its ttl argument
get_genres_no_ttl(c, t, content_type, att, response) ==
    LET key == genres_cache_key(content_type)
        base == OpBase(key, c, 1)
        cached == get_cached_data(c, key, t)
        r == make_request(att)
    IN IF Truthy(cached) THEN [base EXCEPT !.result = cached, !.hit = TRUE]
       ELSE IF ~r.ok THEN [base EXCEPT !.ok = FALSE, !.exc = r.exc, !.upstream = r.attempts]
       ELSE [base EXCEPT !.result = <<genres_list(response)>>, !.upstream = r.attempts,
                         !.writes = 1,
                         !.cache = set_cached_data(c, key, genres_list(response),
                                                   NoTtl, t)]

\* One call of get_genres on cache c at time t.
get_genres(c, t, content_type, att, response) ==
    LET key == genres_cache_key(content_type)
        base == OpBase(key, c, 1)
        cached == get_cached_data(c, key, t)
        r == make_request(att)
    IN IF Truthy(cached) THEN [base EXCEPT !.result = cached, !.hit = TRUE]
       ELSE IF ~r.ok THEN [base EXCEPT !.ok = FALSE, !.exc = r.exc, !.upstream = r.attempts]
       ELSE [base EXCEPT !.result = <<genres_list(response)>>, !.upstream = r.attempts,
                         !.writes = 1,
                         !.cache = set_cached_data(c, key, genres_list(response),
                                                   GenresTTL, t)]

-----------------------------------------------------------------------------
(* ContentService: schedule, people search, show index *)

\* one element of get_schedule's list
schedule_entry(s) ==
    [id |-> s.id, airtime |-> s.airtime, airstamp |-> s.airstamp, runtime |-> s.runtime,
     show |-> [id |-> s.show.id, name |-> s.show.name, type |-> s.show.type,
               language |-> s.show.language, status |-> s.show.status,
               image |-> s.show.image.medium]]

\* None where the empty list is returned
get_schedule_none(c, country, date, att, schedule) ==
    LET base == OpBase(<<>>, c, 0)
        r == make_request(att)
    IN IF ~r.ok THEN [base EXCEPT !.ok = FALSE, !.exc = r.exc, !.upstream = r.attempts]
       ELSE IF schedule = <<>> THEN [base EXCEPT !.upstream = r.attempts]
       ELSE [base EXCEPT !.upstream = r.attempts,
                         !.result = <<ListDoc([i \in 1..Len(schedule) |->
                                                 schedule_entry(schedule[i])])>>]

\* One call of get_schedule(country, date); the operation has no cache key.
get_schedule(c, country, date, att, schedule) ==
    LET base == OpBase(<<>>, c, 0)
        r == make_request(att)
    IN IF ~r.ok THEN [base EXCEPT !.ok = FALSE, !.exc = r.exc, !.upstream = r.attempts]
       ELSE IF schedule = <<>>
       THEN [base EXCEPT !.result = <<ListDoc(<<>>)>>, !.upstream = r.attempts]
       ELSE [base EXCEPT !.upstream = r.attempts,
                         !.result = <<ListDoc([i \in 1..Len(schedule) |->
                                                 schedule_entry(schedule[i])])>>]

\* one element of search_people's list
person_entry(p) ==
    [id |-> p.person.id, name |-> p.person.name, image |-> p.person.image.medium,
     birthday |-> p.person.birthday, deathday |-> p.person.deathday,
     gender |-> p.person.gender, country |-> p.person.country.name]

\* One call of search_people(query).
search_people(c, query, att, people) ==
    LET base == OpBase(<<>>, c, 0)
        r == make_request(att)
    IN IF ~r.ok THEN [base EXCEPT !.ok = FALSE, !.exc = r.exc, !.upstream = r.attempts]
       ELSE IF people = <<>>
       THEN [base EXCEPT !.result = <<ListDoc(<<>>)>>, !.upstream = r.attempts]
       ELSE [base EXCEPT !.upstream = r.attempts,
                         !.result = <<ListDoc([i \in 1..Len(people) |->
                                                 person_entry(people[i])])>>]

\* one element of get_show_index's list
index_entry(s) ==
    [id |-> s.id, title |-> s.name, type |-> s.type, language |-> s.language,
     genres |-> s.genres, status |-> s.status, runtime |-> s.runtime,
     premiered |-> s.premiered, rating |-> s.rating.average, image |-> s.image.medium]

\* One call of get_show_index(page).
get_show_index(c, page, att, shows) ==
    LET base == OpBase(<<>>, c, 0)
        r == make_request(att)
    IN IF ~r.ok THEN [base EXCEPT !.ok = FALSE, !.exc = r.exc, !.upstream = r.attempts]
       ELSE IF shows = <<>>
       THEN [base EXCEPT !.result = <<ListDoc(<<>>)>>, !.upstream = r.attempts]
       ELSE [base EXCEPT !.upstream = r.attempts,
                         !.result = <<ListDoc([i \in 1..Len(shows) |->
                                                 index_entry(shows[i])])>>]

-----------------------------------------------------------------------------
(* ContentService.get_show_details *)

\* the seven requests, in the order the code sends them
DetailFetches == <<"show", "episodes", "cast", "crew", "akas", "images", "seasons">>

\* for episode in episodes: episodes_by_season[season].append(episode)
RECURSIVE episodes_by_season(_, _)
episodes_by_season(episodes, acc) ==
    IF episodes = <<>> THEN acc
    ELSE LET episode == Head(episodes)
             season == episode.season
         IN episodes_by_season(Tail(episodes),
                [s \in (DOMAIN acc) \cup {season} |->
                    IF s = season
                    THEN (IF s \in DOMAIN acc THEN acc[s] ELSE <<>>) \o <<episode>>
                    ELSE acc[s]])

\* a fetch that raises does not end the operation
RECURSIVE fetch_all_lenient(_, _)
fetch_all_lenient(atts, i) ==
    IF i > Len(atts) THEN [done |-> Len(atts), exc |-> <<>>, upstream |-> 0]
    ELSE [fetch_all_lenient(atts, i + 1) EXCEPT
            !.upstream = @ + make_request(atts[i]).attempts]

\* the seven _make_request calls one after the other: how many answered before
\* the first that raised, and the upstream requests sent in all
RECURSIVE fetch_all(_, _)
fetch_all(atts, i) ==
    IF i > Len(atts) THEN [done |-> Len(atts), exc |-> <<>>, upstream |-> 0]
    ELSE LET r == make_request(atts[i])
             rest == fetch_all(atts, i + 1)
         IN IF ~r.ok THEN [done |-> i - 1, exc |-> r.exc, upstream |-> r.attempts]
            ELSE [rest EXCEPT !.upstream = @ + r.attempts]

\* One call of get_show_details(show_id); atts[i] is what the upstream does under
\* the i-th request, up its answers (up.show is <<>> for an empty answer)
get_show_details(show_id, atts, up) ==
    LET first == make_request(atts[1])
        f == fetch_all(atts, 1)
        show == up.show[1]
    IN IF first.ok /\ up.show = <<>>
       THEN [ok |-> TRUE, result |-> <<>>, exc |-> <<>>, upstream |-> first.attempts]
       ELSE IF f.exc # <<>>
       THEN [ok |-> FALSE, result |-> <<>>, exc |-> f.exc, upstream |-> f.upstream]
       ELSE [ok |-> TRUE, exc |-> <<>>, upstream |-> f.upstream,
             result |-> <<DictDoc(20,
                [id |-> show.id, title |-> show.name, type |-> show.type,
                 language |-> show.language, genres |-> show.genres,
                 status |-> show.status, runtime |-> show.runtime,
                 premiered |-> show.premiered, ended |-> show.ended,
                 rating |-> show.rating.average, network |-> show.network.name,
                 webChannel |-> show.webChannel.name,
                 overview |-> RemoveAll(RemoveAll(show.summary, <<"<", "p", ">">>),
                                        <<"<", "/", "p", ">">>),
                 schedule |-> show.schedule,
                 episodes |-> episodes_by_season(up.episodes, <<>>),
                 cast |-> [i \in 1..Len(up.cast) |->
                            [person |-> [id |-> up.cast[i].person.id,
                                         name |-> up.cast[i].person.name,
                                         image |-> up.cast[i].person.image.medium],
                             character |-> [id |-> up.cast[i].character.id,
                                            name |-> up.cast[i].character.name]]],
                 crew |-> [i \in 1..Len(up.crew) |->
                            [person |-> [id |-> up.crew[i].person.id,
                                         name |-> up.crew[i].person.name,
                                         image |-> up.crew[i].person.image.medium],
                             type |-> up.crew[i].type]],
                 alternateNames |-> [i \in 1..Len(up.akas) |->
                            [name |-> up.akas[i].name,
                             country |-> up.akas[i].country.name]],
                 images |-> [i \in 1..Len(up.images) |->
                            [id |-> up.images[i].id, type |-> up.images[i].type,
                             url |-> up.images[i].resolutions.original.url]],
                 seasons |-> [i \in 1..Len(up.seasons) |->
                            [id |-> up.seasons[i].id, number |-> up.seasons[i].number,
                             episodeOrder |-> up.seasons[i].episodeOrder,
                             premiereDate |-> up.seasons[i].premiereDate,
                             endDate |-> up.seasons[i].endDate]]])>>]

-----------------------------------------------------------------------------
(* API layer, routes of one show *)

HTTPExceptionStr(status, detail) == IntToStr(status) \o <<":", " ">> \o detail

ContentNotFound ==
    <<"C", "o", "n", "t", "e", "n", "t", " ", "n", "o", "t", " ", "f", "o", "u", "n", "d">>

\* GET /content/shows/{tvmaze_id}: the HTTPException(404) is raised inside the
\* try whose `except Exception` answers 500 with str(e)
shows_route(out) ==
    IF out.ok
    THEN IF ~Truthy(out.result)
         THEN Response("GET /content/shows/{tvmaze_id}", 500,
                       HTTPExceptionStr(404, ContentNotFound), <<>>, {})
         ELSE Response("GET /content/shows/{tvmaze_id}", 200, <<>>, out.result, {})
    ELSE Response("GET /content/shows/{tvmaze_id}", 500, out.exc[1].message, <<>>, {})

\* DELETE /content/cache/{tvmaze_id}
clear_route(out) ==
    IF out.ok
    THEN Response("DELETE /content/cache/{tvmaze_id}", 200, <<>>, <<>>, {})
    ELSE Response("DELETE /content/cache/{tvmaze_id}", 500, out.exc[1].message, <<>>, {})

-----------------------------------------------------------------------------
(* API layer, content routes: try: ... except Exception as e:                *)
(*     raise HTTPException(status_code=500, detail=str(e))                   *)

\* GET /content/search: results = await content_service.search_content(...)
search_route(out) ==
    IF out.ok THEN Response("GET /content/search", 200, <<>>, out.result, {})
    ELSE Response("GET /content/search", 500, out.exc[1].message, <<>>, {})

-----------------------------------------------------------------------------
(* Settings, tokens and password hashes *)

\* the attributes of app.core.config.settings
SettingsFields ==
    {"PROJECT_NAME", "VERSION", "API_V1_STR", "DATABASE_URL", "DB_ECHO",
     "DB_POOL_SIZE", "DB_MAX_OVERFLOW", "SECRET_KEY", "ALGORITHM",
     "ACCESS_TOKEN_EXPIRE_MINUTES", "CORS_ORIGINS", "ENV", "DEBUG", "REDIS_URL",
     "ALLOWED_HOSTS", "TVMAZE_API_URL"}

ACCESS_TOKEN_EXPIRE_MINUTES == 30

\* timedelta(minutes=settings.ACCESS_TOKEN_EXPIRE_MINUTES), in seconds
access_token_expires == ACCESS_TOKEN_EXPIRE_MINUTES * 60

\* the Authorization header of a request: absent, not a token, or a signed
\* claim set
NoToken == [kind |-> "missing", sub |-> "", exp |-> 0]
GarbageToken == [kind |-> "malformed", sub |-> "", exp |-> 0]

\* security.create_access_token(subject, expires_delta): signed claims sub, exp
create_access_token(subject, expires_delta, t) ==
    [kind |-> "jwt", sub |-> subject, exp |-> t + expires_delta]

\* security.decode_token(token): the claims of a well-formed, unexpired token;
\* raises otherwise
decode_token(token, t) ==
    IF token.kind = "jwt" /\ t < token.exp
    THEN [ok |-> TRUE, payload |-> [sub |-> token.sub]]
    ELSE [ok |-> FALSE, payload |-> [sub |-> ""]]

\* security.get_password_hash / security.verify_password
get_password_hash(password) == <<"hash", password>>

verify_password(plain_password, hashed_password) ==
    hashed_password = get_password_hash(plain_password)

-----------------------------------------------------------------------------
(* Tables: User, Content, Watchlist *)

Emails == {"a@x", "b@x"}
Usernames == {"ann", "bob"}
GoodPassword == "pw"
Passwords == {GoodPassword, "bad"}

\* a signed token whose subject has no User row
OrphanToken == [kind |-> "jwt", sub |-> "zed@x", exp |-> MaxNow + access_token_expires]

\* the Content rows (ids); the table does not change in this model
ContentTable == {1, 2}
\* content_id values a client sends; 3 has no Content row
ContentIdInputs == {1, 2, 3}
ItemIdInputs == 1..MaxItems

UserRow(id, email, username, hashed_password) ==
    [id |-> id, email |-> email, username |-> username,
     hashed_password |-> hashed_password]

WatchlistRow(id, user_id, content_id, watched_episodes, is_completed) ==
    [id |-> id, user_id |-> user_id, content_id |-> content_id,
     watched_episodes |-> watched_episodes, is_completed |-> is_completed]

\* response_model=UserSchema: the row without its password hash
UserSchema(user) == [id |-> user.id, username |-> user.username, email |-> user.email]

\* select(User).where(User.email == email)
UserByEmail(U, email) == {u \in U : u.email = email}

\* select(User).where(User.username == username)
UserByUsername(U, username) == {u \in U : u.username = username}

\* .first() of a non-empty result
First(rows) == CHOOSE r \in rows : TRUE

\* a table without the unique indexes
UniqueViolation_none(U, row) == FALSE

\* unique=True on UserBase.email and UserBase.username: the commit of a row
\* that repeats either raises IntegrityError
UniqueViolation(U, row) ==
    \E u \in U : u.email = row.email \/ u.username = row.username

\* foreign_key="content.id"
ForeignKeyViolation(content_id) == content_id \notin ContentTable

-----------------------------------------------------------------------------
(* Authentication dependencies *)

WWWAuthenticateBearer == <<"WWW-Authenticate", "Bearer">>

CredentialsMessage == <<"C", "o", "u", "l", "d", " ", "n", "o", "t", " ", "v", "a", "l", "i",
      "d", "a", "t", "e", " ", "c", "r", "e", "d", "e", "n", "t", "i", "a", "l", "s">>

NotAuthenticatedMessage == <<"N", "o", "t", " ", "a", "u", "t", "h", "e", "n", "t", "i", "c",
      "a", "t", "e", "d">>

InternalServerErrorMessage == <<"I", "n", "t", "e", "r", "n", "a", "l", " ", "S", "e", "r",
      "v", "e", "r", " ", "E", "r", "r", "o", "r">>

HTTPException(status, detail, headers) ==
    [status |-> status, detail |-> detail, headers |-> headers]

credentials_exception ==
    HTTPException(401, CredentialsMessage, {WWWAuthenticateBearer})

\* an exception no handler catches: the server answers 500
Unhandled == HTTPException(500, InternalServerErrorMessage, {})

Authenticated(user) == [ok |-> TRUE, user |-> <<user>>, exc |-> <<>>]
Rejected(exc) == [ok |-> FALSE, user |-> <<>>, exc |-> <<exc>>]

\* OAuth2PasswordBearer(tokenUrl=...): without a bearer Authorization header
\* the dependency itself answers 401 "Not authenticated"
oauth2_scheme(token) ==
    IF token.kind = "missing"
    THEN Rejected(HTTPException(401, NotAuthenticatedMessage, {WWWAuthenticateBearer}))
    ELSE [ok |-> TRUE, user |-> <<>>, exc |-> <<>>]

\* get_current_user of watchlist.py (bucketlist, recommendations, custom_lists,
\* goals, analytics, ratings and reviews carry the same function)
get_current_user(token, t, U) ==
    LET bearer == oauth2_scheme(token)
        decoded == decode_token(token, t)
        found == UserByEmail(U, decoded.payload.sub)
    IN  IF ~bearer.ok THEN bearer
        ELSE IF ~decoded.ok THEN Rejected(credentials_exception)
        ELSE IF found = {} THEN Rejected(credentials_exception)
        ELSE Authenticated(First(found))

\* get_current_user of auth.py: reads settings.JWT_SECRET and
\* settings.JWT_ALGORITHM before decoding; an attribute the settings lack
\* raises AttributeError, which `except jwt.JWTError` does not catch
auth_get_current_user(token, t, U) ==
    LET bearer == oauth2_scheme(token)
    IN  IF ~bearer.ok THEN bearer
        ELSE IF ~({"JWT_SECRET", "JWT_ALGORITHM"} \subseteq SettingsFields)
        THEN Rejected(Unhandled)
        ELSE get_current_user(token, t, U)

\* which of the cases of a protected call the token is
TokenCase(token, t, U) ==
    CASE token.kind = "missing" -> "missing"
      [] token.kind = "malformed" -> "malformed"
      [] token.kind = "jwt" /\ ~(t < token.exp) -> "expired"
      [] token.kind = "jwt" /\ t < token.exp /\ UserByEmail(U, token.sub) = {} -> "unknown"
      [] OTHER -> "valid"

Deny(route, auth) ==
    Response(route, auth.exc[1].status, auth.exc[1].detail, {}, auth.exc[1].headers)

-----------------------------------------------------------------------------
(* The request in flight and the empty store *)

InFlight(op, email, username, password, user_id, content_id, watched_episodes, is_completed) ==
    [op |-> op, email |-> email, username |-> username, password |-> password,
     user_id |-> user_id, content_id |-> content_id,
     watched_episodes |-> watched_episodes, is_completed |-> is_completed]

Idle == InFlight("idle", "", "", "", 0, 0, 0, FALSE)

\* no key was set yet
NoSetLog == [k \in {} |-> {}]

\* the concurrent calls of get_content_by_id the model follows
NumCallers == 3

\* every call still to begin
NoCallers ==
    [pc |-> [i \in 1..NumCallers |-> "start"], held |-> [i \in 1..NumCallers |-> <<>>],
     result |-> [i \in 1..NumCallers |-> <<>>], exc |-> [i \in 1..NumCallers |-> <<>>],
     hit |-> [i \in 1..NumCallers |-> FALSE], fetches |-> 0, sets |-> <<>>]

\* the tables after SQLModel.metadata.create_all, no request suspended,
\* no client holding a token
DbEmpty ==
    /\ users = {}
    /\ watchlist = {}
    /\ nextId = [user |-> 1, item |-> 1]
    /\ inflight = Idle
    /\ tokens = [e \in Emails |-> NoToken]
    /\ ledger = {}
    /\ analytics = [rows |-> {}, seq |-> 1]
    /\ setLog = NoSetLog
    /\ tables = [bucketlist |-> {}, recommendations |-> {}, lists |-> {},
                 list_items |-> {}, history |-> {}, user_achievements |-> {}]
    /\ callers = NoCallers

-----------------------------------------------------------------------------
(* The search workload *)

Queries == {<<>>, <<" ", "a", " ">>, <<"a", "b">>, <<"c", "d">>}
ContentTypes == {NoneStr, <<"S", "c", "r", "i", "p", "t">>}
Languages == {NoneStr, <<"E", "N", "G", "L", "I", "S", "H">>}
Pages == {1, 2}

SearchArgSpace == [content_type : ContentTypes, language : Languages, page : Pages]

NoCall == [op |-> "none"]
NoProbe == [state |-> "none"]
NoMark == [mark |-> "none", until |-> 0]
NoClearLog == [id \in ContentIds |-> NoMark]
EmptyCache == [k \in {} |-> {}]

\* every attempt got the same answer o
AllAttempts(att, o) == \A i \in 1..StopAfterAttempt : att[i] = o

\* content_service.search_content(query, content_type, language, page), and the
\* answer of GET /content/search when the call is one that route makes (the route
\* passes query and page only)
Search(query, att, payload) ==
    \E out \in {search_content(cache, now, query, searchArgs.content_type,
                               searchArgs.language, searchArgs.page, att, payload)} :
    LET a == searchArgs
        same == /\ last.op = "search" /\ last.ok
                /\ last.query = query /\ last.content_type = a.content_type
                /\ last.language = a.language /\ last.page = a.page
    IN /\ cache' = out.cache
       /\ last' = [op |-> "search", query |-> query, content_type |-> a.content_type,
                   language |-> a.language, page |-> a.page, key |-> out.key,
                   ok |-> out.ok, result |-> out.result, exc |-> out.exc,
                   hit |-> out.hit, reads |-> out.reads, writes |-> out.writes,
                   upstream |-> out.upstream, before |-> cache, after |-> out.cache,
                   time |-> now,
                   fetched |-> IF out.upstream > 0 /\ make_request(att).ok
                               THEN <<payload>> ELSE <<>>,
                   until |-> IF out.hit THEN cache[out.key].expiry ELSE now + SearchTTL,
                   prev |-> IF same
                            THEN <<[result |-> last.result[1], until |-> last.until]>>
                            ELSE <<>>,
                   all429 |-> out.upstream > 0 /\ AllAttempts(att, HttpError(429))]
       /\ resp' = IF a.content_type = NoneStr /\ a.language = NoneStr /\ query # <<>>
                  THEN search_route(out) ELSE NoResp
       /\ UNCHANGED <<now, searchArgs, keyProbe, clearLog, dbVars, extVars>>

\* time passes
Tick ==
    /\ now + TickStep <= MaxNow
    /\ now' = now + TickStep
    /\ cache' = Expire(cache, now')
    /\ UNCHANGED <<searchArgs, last, resp, keyProbe, clearLog, dbVars, extVars>>

InitSearch ==
    /\ cache = EmptyCache
    /\ now = 0
    /\ searchArgs \in SearchArgSpace
    /\ last = NoCall
    /\ resp = NoResp
    /\ keyProbe = NoProbe
    /\ clearLog = NoClearLog
    /\ DbEmpty

\* the upstream behaviours to tell apart under a search: all of them when the
\* call reaches the upstream, one when it does not
SearchUpstreams(query) ==
    IF /\ ~IsShortQuery(query)
       /\ ~Truthy(get_cached_data(cache,
                search_cache_key(query, searchArgs.content_type, searchArgs.language,
                                 searchArgs.page), now))
    THEN Attempts(OkOutcome) \X SearchPayloads
    ELSE {<<[i \in 1..StopAfterAttempt |-> OkOutcome], <<>>>>}

NextSearch ==
    \/ \E query \in Queries : \E u \in SearchUpstreams(query) : Search(query, u[1], u[2])
    \/ Tick

SpecSearch == InitSearch /\ [][NextSearch]_vars

-----------------------------------------------------------------------------
(* The show-detail workload: GET /content/shows/{id}, DELETE /content/cache/{id} *)

\* content_type as the routes pass it
TvType == <<"t", "v">>

\* the cache holds a live entry of get_content_by_id(id, "tv")
ContentCached(id) == Truthy(get_cached_data(cache, content_cache_key(TvType, id), now))

\* the upstream behaviours to tell apart under get_content_by_id
ContentUpstreams(id) ==
    IF ContentCached(id) THEN {[i \in 1..StopAfterAttempt |-> OkOutcome]}
    ELSE Attempts(ShowAnswer(id))

\* GET /content/shows/{tvmaze_id} -> content_service.get_content_by_id(id, "tv")
GetContent(tvmaze_id, att) ==
    \E out \in {get_content_by_id(cache, now, tvmaze_id, TvType, att)} :
       /\ cache' = out.cache
       /\ last' = [op |-> "get_content", tvmaze_id |-> tvmaze_id,
                   content_type |-> TvType, key |-> out.key,
                   ok |-> out.ok, result |-> out.result, exc |-> out.exc,
                   hit |-> out.hit, reads |-> out.reads, writes |-> out.writes,
                   upstream |-> out.upstream, before |-> cache, after |-> out.cache,
                   time |-> now, mark |-> clearLog[tvmaze_id].mark,
                   markUntil |-> clearLog[tvmaze_id].until,
                   all429 |-> out.upstream > 0 /\ AllAttempts(att, HttpError(429)),
                   all404 |-> out.upstream > 0 /\ AllAttempts(att, HttpError(404)),
                   att |-> att]
       /\ resp' = shows_route(out)
       /\ clearLog' = [clearLog EXCEPT ![tvmaze_id] = NoMark]
       /\ UNCHANGED <<now, searchArgs, keyProbe, dbVars, extVars>>

\* content_service.clear_content_cache(tvmaze_id); with an ID it is what
\* DELETE /content/cache/{tvmaze_id} does.  clearLog notes, for the ID named, that
\* its cached entry was to go, and for every other ID with a cached entry, that
\* the entry was to stay until its expiry.
ClearCache(tvmaze_id) ==
    \E out \in {clear_content_cache(cache, tvmaze_id)} :
       /\ cache' = out.cache
       /\ last' = [op |-> "clear", tvmaze_id |-> tvmaze_id, ok |-> out.ok,
                   exc |-> out.exc, before |-> cache, after |-> out.cache,
                   time |-> now]
       /\ resp' = IF tvmaze_id # <<>> THEN clear_route(out) ELSE NoResp
       /\ clearLog' =
            IF tvmaze_id = <<>> THEN clearLog
            ELSE [id \in ContentIds |->
                    IF ~ContentCached(id) \/ clearLog[id].mark = "cleared"
                    THEN clearLog[id]
                    ELSE IF id = tvmaze_id[1]
                    THEN [mark |-> "cleared", until |-> 0]
                    ELSE [mark |-> "kept",
                          until |-> cache[content_cache_key(TvType, id)].expiry]]
       /\ UNCHANGED <<now, searchArgs, keyProbe, dbVars, extVars>>

InitContent ==
    /\ cache = EmptyCache
    /\ now = 0
    /\ searchArgs = [content_type |-> NoneStr, language |-> NoneStr, page |-> 1]
    /\ last = NoCall
    /\ resp = NoResp
    /\ keyProbe = NoProbe
    /\ clearLog = NoClearLog
    /\ DbEmpty

NextContent ==
    \/ \E id \in ContentIds : \E att \in ContentUpstreams(id) : GetContent(id, att)
    \/ \E id \in {<<>>} \cup {<<i>> : i \in ContentIds} : ClearCache(id)
    \/ Tick

SpecContent == InitContent /\ [][NextContent]_vars

-----------------------------------------------------------------------------
(* Cache keys of two searches that differ in the query text only *)

ProbeQueries ==
    {<<"a", "b">>, <<"c", "d">>, <<"a", "b", " ">>, <<"A", "b">>, <<"a", ":", "b">>,
     <<"a", "b", ":", "a", "l", "l">>}
ProbeFilters == {NoneStr, <<>>, <<"S", "c", "r", "i", "p", "t">>, <<"a", "l", "l">>}

InitKey ==
    /\ cache = EmptyCache
    /\ now = 0
    /\ searchArgs = [content_type |-> NoneStr, language |-> NoneStr, page |-> 1]
    /\ last = NoCall
    /\ resp = NoResp
    /\ clearLog = NoClearLog
    /\ DbEmpty
    /\ keyProbe \in [state : {"asked"}, q1 : ProbeQueries, q2 : ProbeQueries,
                     content_type : ProbeFilters, language : ProbeFilters, page : Pages]

\* both searches build their key (line 53 of search_content)
BuildKeys ==
    /\ keyProbe.state = "asked"
    /\ keyProbe' = [state |-> "built", q1 |-> keyProbe.q1, q2 |-> keyProbe.q2,
                    content_type |-> keyProbe.content_type,
                    language |-> keyProbe.language, page |-> keyProbe.page,
                    k1 |-> search_cache_key(keyProbe.q1, keyProbe.content_type,
                                            keyProbe.language, keyProbe.page),
                    k2 |-> search_cache_key(keyProbe.q2, keyProbe.content_type,
                                            keyProbe.language, keyProbe.page)]
    /\ UNCHANGED <<cache, now, searchArgs, last, resp, clearLog, dbVars, extVars>>

NextKey == BuildKeys

SpecKey == InitKey /\ [][NextKey]_vars

-----------------------------------------------------------------------------
(* auth.py and watchlist.py: the handlers *)

EmailRegistered == <<"E", "m", "a", "i", "l", " ", "a", "l", "r", "e", "a", "d", "y", " ", "r",
      "e", "g", "i", "s", "t", "e", "r", "e", "d">>

UsernameTaken == <<"U", "s", "e", "r", "n", "a", "m", "e", " ", "a", "l", "r", "e", "a", "d",
      "y", " ", "t", "a", "k", "e", "n">>

IntegrityErrorStr == <<"(", "I", "n", "t", "e", "g", "r", "i", "t", "y", "E", "r", "r", "o",
      "r", ")", " ", "d", "u", "p", "l", "i", "c", "a", "t", "e", " ", "k", "e", "y", " ", "v",
      "a", "l", "u", "e", " ", "v", "i", "o", "l", "a", "t", "e", "s", " ", "u", "n", "i", "q",
      "u", "e", " ", "c", "o", "n", "s", "t", "r", "a", "i", "n", "t">>

IncorrectLogin == <<"I", "n", "c", "o", "r", "r", "e", "c", "t", " ", "e", "m", "a", "i", "l",
      " ", "o", "r", " ", "p", "a", "s", "s", "w", "o", "r", "d">>

AlreadyInWatchlist == <<"C", "o", "n", "t", "e", "n", "t", " ", "a", "l", "r", "e", "a", "d",
      "y", " ", "i", "n", " ", "w", "a", "t", "c", "h", "l", "i", "s", "t">>

ItemNotFound == <<"W", "a", "t", "c", "h", "l", "i", "s", "t", " ", "i", "t", "e", "m", " ",
      "n", "o", "t", " ", "f", "o", "u", "n", "d">>

\* the tokens a client can send: none, a string that is no token, a signed
\* token of an unknown subject, and the tokens that login returned
TokenInputs == {NoToken, GarbageToken, OrphanToken} \cup {tokens[e] : e \in Emails}

\* POST /auth/register, lines 46-59: the two selects.  The HTTPException raised
\* on a row found is caught by the handler's `except Exception` and answered
\* 400 with str(e)
register_check(U, email, username) ==
    IF UserByEmail(U, email) # {}
    THEN [pass |-> FALSE,
          resp |-> Response("POST /auth/register", 400,
                            HTTPExceptionStr(400, EmailRegistered), {}, {})]
    ELSE IF UserByUsername(U, username) # {}
    THEN [pass |-> FALSE,
          resp |-> Response("POST /auth/register", 400,
                            HTTPExceptionStr(400, UsernameTaken), {}, {})]
    ELSE [pass |-> TRUE, resp |-> NoResp]

\* POST /auth/register, lines 61-76: hash, add, commit, refresh; an
\* IntegrityError of the commit is answered 400 after the rollback
register_commit(U, id, email, username, password) ==
    LET db_user == UserRow(id, email, username, get_password_hash(password))
    IN  IF UniqueViolation(U, db_user)
        THEN [users |-> U,
              resp |-> Response("POST /auth/register", 400, IntegrityErrorStr, {}, {})]
        ELSE [users |-> U \cup {db_user},
              resp |-> Response("POST /auth/register", 200, <<>>, {UserSchema(db_user)}, {})]

\* POST /auth/register, handled without interruption
Register(email, username) ==
    /\ LET check == register_check(users, email, username)
           commit == register_commit(users, nextId.user, email, username, GoodPassword)
       IN  /\ users' = IF check.pass THEN commit.users ELSE users
           /\ nextId' = IF check.pass THEN [nextId EXCEPT !.user = @ + 1] ELSE nextId
           /\ UNCHANGED <<watchlist, inflight, tokens, ledger>>
           /\ resp' = IF check.pass THEN commit.resp ELSE check.resp
    /\ UNCHANGED <<cache, now, searchArgs, last, keyProbe, clearLog, extVars>>

\* POST /auth/register in a worker thread that is suspended after its selects
\* found no row
RegisterCheck(email, username) ==
    /\ inflight = Idle
    /\ register_check(users, email, username).pass
    /\ inflight' = InFlight("register", email, username, GoodPassword, 0, 0, 0, FALSE)
    /\ UNCHANGED <<users, watchlist, nextId, tokens, ledger, resp>>
    /\ UNCHANGED <<cache, now, searchArgs, last, keyProbe, clearLog, extVars>>

\* the suspended register resumes: lines 61-76
RegisterCommit ==
    /\ inflight.op = "register"
    /\ LET commit == register_commit(users, nextId.user, inflight.email,
                                     inflight.username, inflight.password)
       IN  /\ users' = commit.users
           /\ nextId' = [nextId EXCEPT !.user = @ + 1]
           /\ inflight' = Idle
           /\ UNCHANGED <<watchlist, tokens, ledger>>
           /\ resp' = commit.resp
    /\ UNCHANGED <<cache, now, searchArgs, last, keyProbe, clearLog, extVars>>

\* POST /auth/login
Login(email, password) ==
    /\ LET found == UserByEmail(users, email)
           user == First(found)
           granted == found # {} /\ verify_password(password, user.hashed_password)
           access_token == create_access_token(user.email, access_token_expires, now)
       IN  /\ tokens' = IF granted THEN [tokens EXCEPT ![email] = access_token]
                        ELSE tokens
           /\ UNCHANGED <<users, watchlist, nextId, inflight, ledger>>
           /\ resp' =
                IF granted
                THEN Response("POST /auth/login", 200, <<>>,
                              {[access_token |-> access_token, token_type |-> "bearer"]},
                              {})
                ELSE Response("POST /auth/login", 401, IncorrectLogin, {},
                              {WWWAuthenticateBearer})
    /\ UNCHANGED <<cache, now, searchArgs, last, keyProbe, clearLog, extVars>>

\* GET /auth/me
ReadUsersMe(token) ==
    /\ LET auth == auth_get_current_user(token, now, users)
       IN  /\ UNCHANGED dbVars
           /\ resp' = IF auth.ok
                      THEN Response("GET /auth/me", 200, <<>>, {UserSchema(auth.user[1])}, {})
                      ELSE Deny("GET /auth/me", auth)
    /\ UNCHANGED <<cache, now, searchArgs, last, keyProbe, clearLog, extVars>>

\* the select without its where clause
get_watchlist_unscoped(W, current_user) == W

\* select(Watchlist).where(Watchlist.user_id == current_user.id)
get_watchlist(W, current_user) == {r \in W : r.user_id = current_user.id}

\* GET /watchlist
GetWatchlist(token) ==
    /\ LET auth == get_current_user(token, now, users)
       IN  /\ UNCHANGED dbVars
           /\ resp' = IF auth.ok
                      THEN Response("GET /watchlist", 200, <<>>,
                                    get_watchlist(watchlist, auth.user[1]), {})
                      ELSE Deny("GET /watchlist", auth)
    /\ UNCHANGED <<cache, now, searchArgs, last, keyProbe, clearLog, extVars>>

\* the select comparing Watchlist.id with the content_id
existing_item_by_id(W, current_user, content_id) ==
    {r \in W : r.user_id = current_user.id /\ r.id = content_id}

\* select(Watchlist).where(user_id == current_user.id).where(content_id == ...)
existing_item(W, current_user, content_id) ==
    {r \in W : r.user_id = current_user.id /\ r.content_id = content_id}

\* POST /watchlist, lines 47-59: the Content select and the select of the
\* existing row
add_check(W, current_user, content_id) ==
    IF content_id \notin ContentTable
    THEN [pass |-> FALSE,
          resp |-> Response("POST /watchlist", 404, ContentNotFound, {}, {})]
    ELSE IF existing_item(W, current_user, content_id) # {}
    THEN [pass |-> FALSE,
          resp |-> Response("POST /watchlist", 400, AlreadyInWatchlist, {}, {})]
    ELSE [pass |-> TRUE, resp |-> NoResp]

\* POST /watchlist, lines 61-70: add, commit, refresh
add_commit(W, id, user_id, content_id, watched_episodes, is_completed) ==
    LET db_item == WatchlistRow(id, user_id, content_id, watched_episodes, is_completed)
    IN  [watchlist |-> W \cup {db_item}, item |-> db_item,
         resp |-> Response("POST /watchlist", 200, <<>>, {db_item}, {})]

\* rows inserted, and the one a suspended POST will insert
ItemsClaimed == (nextId.item - 1) + (IF inflight.op = "add" THEN 1 ELSE 0)

\* POST /watchlist, handled without interruption
Add(token, content_id) ==
    /\ LET auth == get_current_user(token, now, users)
           current_user == auth.user[1]
           check == add_check(watchlist, current_user, content_id)
           commit == add_commit(watchlist, nextId.item, current_user.id, content_id,
                                0, FALSE)
           stored == auth.ok /\ check.pass
       IN  /\ stored => ItemsClaimed < MaxItems
           /\ watchlist' = IF stored THEN commit.watchlist ELSE watchlist
           /\ nextId' = IF stored THEN [nextId EXCEPT !.item = @ + 1] ELSE nextId
           /\ ledger' = IF stored THEN ledger \cup {<<current_user.id, commit.item.id>>}
                        ELSE ledger
           /\ UNCHANGED <<users, inflight, tokens>>
           /\ resp' = IF ~auth.ok THEN Deny("POST /watchlist", auth)
                      ELSE IF check.pass THEN commit.resp ELSE check.resp
    /\ UNCHANGED <<cache, now, searchArgs, last, keyProbe, clearLog, extVars>>

\* POST /watchlist suspended after its selects passed (a second server process
\* handles other requests meanwhile)
AddCheck(token, content_id) ==
    /\ inflight = Idle
    /\ ItemsClaimed < MaxItems
    /\ LET auth == get_current_user(token, now, users)
           current_user == auth.user[1]
       IN  /\ auth.ok
           /\ add_check(watchlist, current_user, content_id).pass
           /\ inflight' = InFlight("add", "", "", "", current_user.id, content_id, 0, FALSE)
           /\ UNCHANGED <<users, watchlist, nextId, tokens, ledger, resp>>
    /\ UNCHANGED <<cache, now, searchArgs, last, keyProbe, clearLog, extVars>>

\* the suspended POST /watchlist resumes: lines 61-70
AddCommit ==
    /\ inflight.op = "add"
    /\ LET commit == add_commit(watchlist, nextId.item, inflight.user_id,
                                inflight.content_id, inflight.watched_episodes,
                                inflight.is_completed)
       IN  /\ watchlist' = commit.watchlist
           /\ nextId' = [nextId EXCEPT !.item = @ + 1]
           /\ inflight' = Idle
           /\ ledger' = ledger \cup {<<inflight.user_id, commit.item.id>>}
           /\ UNCHANGED <<users, tokens>>
           /\ resp' = commit.resp
    /\ UNCHANGED <<cache, now, searchArgs, last, keyProbe, clearLog, extVars>>

\* select(Watchlist).where(id == item_id).where(user_id == current_user.id)
own_item(W, current_user, item_id) ==
    {r \in W : r.id = item_id /\ r.user_id = current_user.id}

\* PUT /watchlist/{item_id}: every field of the body is set on the row; a
\* content_id without a Content row makes the commit raise, which the handler
\* does not catch
UpdateItem(token, item_id, content_id, watched_episodes, is_completed) ==
    /\ LET auth == get_current_user(token, now, users)
           found == own_item(watchlist, auth.user[1], item_id)
           db_item == First(found)
           updated == WatchlistRow(db_item.id, db_item.user_id, content_id,
                                   watched_episodes, is_completed)
           stored == auth.ok /\ found # {} /\ ~ForeignKeyViolation(content_id)
       IN  /\ watchlist' = IF stored THEN (watchlist \ {db_item}) \cup {updated}
                           ELSE watchlist
           /\ UNCHANGED <<users, nextId, inflight, tokens, ledger>>
           /\ resp' =
                IF ~auth.ok THEN Deny("PUT /watchlist/{item_id}", auth)
                ELSE IF found = {}
                THEN Response("PUT /watchlist/{item_id}", 404, ItemNotFound, {}, {})
                ELSE IF ForeignKeyViolation(content_id)
                THEN Response("PUT /watchlist/{item_id}", 500,
                              InternalServerErrorMessage, {}, {})
                ELSE Response("PUT /watchlist/{item_id}", 200, <<>>, {updated}, {})
    /\ UNCHANGED <<cache, now, searchArgs, last, keyProbe, clearLog, extVars>>

\* DELETE /watchlist/{item_id}
RemoveItem(token, item_id) ==
    /\ LET auth == get_current_user(token, now, users)
           found == own_item(watchlist, auth.user[1], item_id)
           db_item == First(found)
           deleted == auth.ok /\ found # {}
       IN  /\ watchlist' = IF deleted THEN watchlist \ {db_item} ELSE watchlist
           /\ ledger' = IF deleted THEN ledger \ {<<db_item.user_id, db_item.id>>}
                        ELSE ledger
           /\ UNCHANGED <<users, nextId, inflight, tokens>>
           /\ resp' =
                IF ~auth.ok THEN Deny("DELETE /watchlist/{item_id}", auth)
                ELSE IF found = {}
                THEN Response("DELETE /watchlist/{item_id}", 404, ItemNotFound, {}, {})
                ELSE Response("DELETE /watchlist/{item_id}", 200, <<>>,
                              {[message |-> "Item removed from watchlist"]}, {})
    /\ UNCHANGED <<cache, now, searchArgs, last, keyProbe, clearLog, extVars>>

\* the clock advances towards the expiry of the tokens
TokenClock ==
    /\ now + TickStep <= MaxTokenClock
    /\ now' = now + TickStep
    /\ UNCHANGED <<cache, searchArgs, last, resp, keyProbe, clearLog, dbVars, extVars>>

InitDb ==
    /\ cache = EmptyCache
    /\ now = 0
    /\ searchArgs = [content_type |-> NoneStr, language |-> NoneStr, page |-> 1]
    /\ last = NoCall
    /\ resp = NoResp
    /\ keyProbe = NoProbe
    /\ clearLog = NoClearLog
    /\ DbEmpty

\* the watchlist of registered users: registration, login and the four
\* /watchlist handlers, one POST being suspended at a time
NextDb ==
    \/ \E email \in Emails : \E username \in Usernames : Register(email, username)
    \/ \E email \in Emails : \E password \in Passwords : Login(email, password)
    \/ \E token \in TokenInputs : GetWatchlist(token)
    \/ \E token \in TokenInputs : \E content_id \in ContentIdInputs : Add(token, content_id)
    \/ \E token \in TokenInputs : \E content_id \in ContentIdInputs :
          AddCheck(token, content_id)
    \/ AddCommit
    \/ \E token \in TokenInputs : \E item_id \in ItemIdInputs :
       \E content_id \in ContentIdInputs : UpdateItem(token, item_id, content_id, 0, FALSE)
    \/ \E token \in TokenInputs : \E item_id \in ItemIdInputs : RemoveItem(token, item_id)

SpecDb == InitDb /\ [][NextDb]_vars

\* a call to a protected endpoint with this token
ProtectedCall(token) ==
    \/ ReadUsersMe(token)
    \/ GetWatchlist(token)
    \/ \E content_id \in ContentIdInputs : Add(token, content_id)
    \/ \E item_id \in ItemIdInputs : \E content_id \in ContentIdInputs :
          UpdateItem(token, item_id, content_id, 0, FALSE)
    \/ \E item_id \in ItemIdInputs : RemoveItem(token, item_id)

\* accounts and tokens: registrations that interleave, logins, tokens that
\* expire, the reading endpoints called with every token and the writing ones
\* with the tokens that do not authenticate
NextAuth ==
    \/ \E email \in Emails : \E username \in Usernames : Register(email, username)
    \/ \E email \in Emails : \E username \in Usernames : RegisterCheck(email, username)
    \/ RegisterCommit
    \/ \E email \in Emails : \E password \in Passwords : Login(email, password)
    \/ \E token \in TokenInputs : ReadUsersMe(token)
    \/ \E token \in TokenInputs : GetWatchlist(token)
    \/ \E token \in TokenInputs :
          TokenCase(token, now, users) # "valid" /\ ProtectedCall(token)
    \/ TokenClock

SpecAuth == InitDb /\ [][NextAuth]_vars

-----------------------------------------------------------------------------
(* RedisService on its own: set, get, delete, and the clock *)

RedisKeys == {content_cache_key(<<"t", "v">>, <<"1">>), content_cache_key(<<"t", "v">>, <<"2">>)}
RedisDocs == {DictDoc(1, [id |-> 1]), DictDoc(1, [id |-> 2])}
RedisTtls == {NoTtl, 900, 3600}

\* redis_service.set_cached_data(key, data, ttl)
SetCached(key, doc, ttl) ==
    /\ cache' = set_cached_data(cache, key, doc, ttl, now)
    /\ setLog' = [k \in (DOMAIN setLog) \cup {key} |->
                    IF k = key THEN [at |-> now, ttl |-> ttl] ELSE setLog[k]]
    /\ last' = [op |-> "set", key |-> key, time |-> now]
    /\ UNCHANGED <<now, searchArgs, resp, keyProbe, clearLog, dbVars, analytics, tables, callers>>

\* redis_service.get_cached_data(key)
GetCached(key) ==
    /\ last' = [op |-> "get", key |-> key, time |-> now,
                result |-> get_cached_data(cache, key, now)]
    /\ UNCHANGED <<cache, now, searchArgs, resp, keyProbe, clearLog, dbVars, extVars>>

\* redis_service.delete_cached_data(key)
DeleteCached(key) ==
    /\ cache' = delete_cached_data(cache, key)
    /\ setLog' = [k \in (DOMAIN setLog) \ {key} |-> setLog[k]]
    /\ last' = [op |-> "delete", key |-> key, time |-> now]
    /\ UNCHANGED <<now, searchArgs, resp, keyProbe, clearLog, dbVars, analytics, tables, callers>>

\* time passes; Redis drops an expired key when the key is next asked for
RedisTick ==
    /\ now + TickStep <= MaxRedisNow
    /\ now' = now + TickStep
    /\ UNCHANGED <<cache, searchArgs, last, resp, keyProbe, clearLog, dbVars, extVars>>

NextRedis ==
    \/ \E key \in RedisKeys, doc \in RedisDocs, ttl \in RedisTtls : SetCached(key, doc, ttl)
    \/ \E key \in RedisKeys : GetCached(key)
    \/ \E key \in RedisKeys : DeleteCached(key)
    \/ RedisTick

SpecRedis == InitContent /\ [][NextRedis]_vars

-----------------------------------------------------------------------------
(* The operations of the content service, one cache under all of them *)

\* the upstream's list answers: none, the show asked about, and one more
ComedyShow == [Show2 EXCEPT !.genres = <<"Comedy">>]
ShowLists == {<<>>, <<Show1>>, <<Show1, ComedyShow>>}

ScheduleLists ==
    {<<>>, <<[id |-> 5, airtime |-> "21:00", airstamp |-> "2020-01-01T21:00:00",
              runtime |-> 60, show |-> Show1]>>}

PeopleLists ==
    {<<>>, <<[person |-> [id |-> 7, name |-> "Ann", image |-> [medium |-> "a.jpg"],
                          birthday |-> "1980-01-01", deathday |-> "",
                          gender |-> "Female", country |-> [name |-> "Chile"]]]>>}

\* the upstream behaviours told apart here: the answer at once, or three 500s
FewAttempts(answer) ==
    {[i \in 1..StopAfterAttempt |-> IF i <= n THEN HttpError(500) ELSE answer] :
        n \in {0, StopAfterAttempt}}

\* the upstream matters only when the key holds nothing that counts as cached
OnMiss(key, upstreams) ==
    IF Truthy(get_cached_data(cache, key, now))
    THEN {CHOOSE u \in upstreams : TRUE}
    ELSE upstreams

\* the entries the call wrote, each with the ttl it got
Written(out) ==
    {[key |-> k, ttl |-> out.cache[k].expiry - now] :
        k \in {x \in DOMAIN out.cache : x \notin DOMAIN cache \/ out.cache[x] # cache[x]}}

\* what the call did: the stored entry it found under its key, what it returned
\* or raised, what it wrote, whether it repeats the call before it (the
\* operations without a key are called with one set of parameters here), and
\* whether the upstream answered its list request with an empty list
OpsCall(op, out, emptyAnswer) ==
    /\ cache' = out.cache
    /\ last' = [op |-> op, key |-> out.key, ok |-> out.ok, result |-> out.result,
                exc |-> out.exc, hit |-> out.hit, reads |-> out.reads,
                writes |-> out.writes, upstream |-> out.upstream, time |-> now,
                held |-> IF out.key = <<>> THEN <<>> ELSE RedisGet(cache, out.key, now),
                written |-> Written(out),
                repeats |-> /\ last.op = op /\ last.ok
                            /\ (out.key = <<>> \/ last.key = out.key),
                emptyAnswer |-> emptyAnswer]
    /\ UNCHANGED <<now, searchArgs, resp, keyProbe, clearLog, dbVars, extVars>>

\* GET /content/shows/{tvmaze_id}/credits
GetCredits(tvmaze_id, att) ==
    \E out \in {get_cast_and_crew(cache, now, tvmaze_id, TvType, att)} :
        OpsCall("credits", out, FALSE)

\* GET /content/shows/{tvmaze_id}/similar
GetSimilar(tvmaze_id, page, att1, att2, response) ==
    \E out \in {get_similar_content(cache, now, tvmaze_id, TvType, page, att1, att2,
                                    response)} :
        OpsCall("similar", out,
                /\ response = <<>> /\ ~out.hit /\ make_request(att2).ok
                /\ \E show \in {get_content_by_id(cache, now, tvmaze_id, TvType, att1)} :
                      show.ok /\ show.result[1].body.genres # <<>>)

\* GET /content/trending
GetTrending(att, response) ==
    \E out \in {get_trending_content(cache, now, TvType, <<"d", "a", "y">>, att,
                                     response)} :
        OpsCall("trending", out, response = <<>> /\ ~out.hit /\ make_request(att).ok)

\* GET /content/genres
GetGenres(att, response) ==
    \E out \in {get_genres(cache, now, TvType, att, response)} :
        OpsCall("genres", out, response = <<>> /\ ~out.hit /\ make_request(att).ok)

\* content_service.get_schedule("US", None)
GetSchedule(att, schedule) ==
    \E out \in {get_schedule(cache, <<"U", "S">>, NoneStr, att, schedule)} :
        OpsCall("schedule", out, schedule = <<>> /\ make_request(att).ok)

\* content_service.search_people("ann")
SearchPeople(att, people) ==
    \E out \in {search_people(cache, <<"a", "n", "n">>, att, people)} :
        OpsCall("people", out, people = <<>> /\ make_request(att).ok)

\* content_service.get_show_index(1)
GetShowIndex(att, shows) ==
    \E out \in {get_show_index(cache, 1, att, shows)} :
        OpsCall("index", out, shows = <<>> /\ make_request(att).ok)

\* content_service.get_content_by_id(tvmaze_id, "tv")
GetDetail(tvmaze_id, att) ==
    \E out \in {get_content_by_id(cache, now, tvmaze_id, TvType, att)} :
        OpsCall("content", out, FALSE)

\* content_service.search_content("ab")
SearchShows(att, payload) ==
    \E out \in {search_content(cache, now, <<"a", "b">>, NoneStr, NoneStr, 1, att,
                               payload)} :
        OpsCall("search", out, payload = <<>> /\ ~out.hit /\ make_request(att).ok)

\* content_service.clear_content_cache(tvmaze_id), tvmaze_id an Optional[str]
ClearOp(tvmaze_id) ==
    \E out \in {clear_content_cache(cache, tvmaze_id)} :
        /\ cache' = out.cache
        /\ last' = [op |-> "clear", tvmaze_id |-> tvmaze_id, ok |-> out.ok,
                    exc |-> out.exc, time |-> now]
        /\ UNCHANGED <<now, searchArgs, resp, keyProbe, clearLog, dbVars, extVars>>

NextOps ==
    \/ \E id \in ContentIds :
         \E att \in OnMiss(content_cache_key(TvType, id), FewAttempts(ShowAnswer(id))) :
            GetDetail(id, att)
    \/ \E id \in {<<"1">>, <<"9">>} :
         \E att \in OnMiss(credits_cache_key(TvType, id), FewAttempts(ShowAnswer(id))) :
            GetCredits(id, att)
    \/ \E id \in ContentIds :
         \E att1 \in OnMiss(content_cache_key(TvType, id), FewAttempts(ShowAnswer(id))) :
         \E u \in OnMiss(similar_cache_key(TvType, id, 1),
                         FewAttempts(OkOutcome) \X ShowLists) :
            GetSimilar(id, 1, att1, u[1], u[2])
    \/ \E u \in OnMiss(trending_cache_key(TvType, <<"d", "a", "y">>),
                        FewAttempts(OkOutcome) \X {<<>>, <<Show1, ComedyShow>>}) :
            GetTrending(u[1], u[2])
    \/ \E u \in OnMiss(genres_cache_key(TvType),
                        FewAttempts(OkOutcome) \X {<<>>, <<Show1, ComedyShow>>}) :
            GetGenres(u[1], u[2])
    \/ \E u \in OnMiss(search_cache_key(<<"a", "b">>, NoneStr, NoneStr, 1),
                        FewAttempts(OkOutcome) \X {<<>>, <<Hit(Show2), Hit(Show1)>>}) :
            SearchShows(u[1], u[2])
    \/ \E att \in FewAttempts(OkOutcome), schedule \in ScheduleLists :
            GetSchedule(att, schedule)
    \/ \E att \in FewAttempts(OkOutcome), people \in PeopleLists :
            SearchPeople(att, people)
    \/ \E att \in FewAttempts(OkOutcome), shows \in {<<>>, <<Show1>>} :
            GetShowIndex(att, shows)
    \/ \E tvmaze_id \in {<<>>, <<<<"1">>>>, <<<<"2">>>>} : ClearOp(tvmaze_id)

SpecOps == InitContent /\ [][NextOps]_vars

-----------------------------------------------------------------------------
(* Cache keys of two logical queries, of one operation or of two *)

\* a logical query: the operation and the parameters that tell its calls apart
SearchQuery(query, content_type, language, page) ==
    [op |-> "search", query |-> query, content_type |-> content_type,
     language |-> language, page |-> page, tvmaze_id |-> NoneStr]
ShowQuery(op, content_type, tvmaze_id, page) ==
    [op |-> op, query |-> NoneStr, content_type |-> content_type, language |-> NoneStr,
     page |-> page, tvmaze_id |-> tvmaze_id]

LogicalQueries ==
    {SearchQuery(q, ct, lg, p) :
        q \in {<<"a", "b">>, <<"c", "d">>}, ct \in {NoneStr, <<"a", "l", "l">>, <<"t", "v">>},
        lg \in {NoneStr, <<"a", "l", "l">>}, p \in Pages}
    \cup {ShowQuery(op, TvType, id, 1) : op \in {"content", "credits"}, id \in ContentIds}
    \cup {ShowQuery("similar", TvType, id, p) : id \in ContentIds, p \in Pages}

\* the cache_key each operation builds for the query
operation_cache_key(q) ==
    CASE q.op = "search" ->
            search_cache_key(q.query, q.content_type, q.language, q.page)
      [] q.op = "content" -> content_cache_key(q.content_type, q.tvmaze_id)
      [] q.op = "credits" -> credits_cache_key(q.content_type, q.tvmaze_id)
      [] q.op = "similar" -> similar_cache_key(q.content_type, q.tvmaze_id, q.page)

InitQueryKeys ==
    /\ cache = EmptyCache
    /\ now = 0
    /\ searchArgs = [content_type |-> NoneStr, language |-> NoneStr, page |-> 1]
    /\ last = NoCall
    /\ resp = NoResp
    /\ clearLog = NoClearLog
    /\ DbEmpty
    /\ keyProbe \in [state : {"asked"}, a : LogicalQueries, b : LogicalQueries]

\* both operations build their key
BuildQueryKeys ==
    /\ keyProbe.state = "asked"
    /\ keyProbe' = [state |-> "keys", a |-> keyProbe.a, b |-> keyProbe.b,
                    ka |-> operation_cache_key(keyProbe.a),
                    kb |-> operation_cache_key(keyProbe.b)]
    /\ UNCHANGED <<cache, now, searchArgs, last, resp, clearLog, dbVars, extVars>>

SpecQueryKeys == InitQueryKeys /\ [][BuildQueryKeys]_vars

-----------------------------------------------------------------------------
(* analytics.py: the handlers of the Analytics table.  None of the four       *)
(* declares Depends(get_current_user); token is what the request carries.     *)

AnalyticsRow(id, user_id, total_watch_time) ==
    [id |-> id, user_id |-> user_id, total_watch_time |-> total_watch_time]

AnalyticsNotFound ==
    <<"A", "n", "a", "l", "y", "t", "i", "c", "s", " ", "n", "o", "t", " ", "f", "o",
      "u", "n", "d">>

\* GET /analytics/: session.exec(select(Analytics)).all()
GetAnalytics(token) ==
    /\ resp' = Response("GET /analytics/", 200, <<>>, analytics.rows, {})
    /\ UNCHANGED <<cache, now, searchArgs, last, keyProbe, clearLog, dbVars, extVars>>

\* POST /analytics/: Analytics(**analytics.dict()); user_id comes from the body
\* and names a row of User
CreateAnalytics(token, user_id, total_watch_time) ==
    /\ analytics.seq <= MaxAnalytics
    /\ user_id \in {u.id : u \in users}
    /\ \E db_analytics \in {AnalyticsRow(analytics.seq, user_id, total_watch_time)} :
          /\ analytics' = [rows |-> analytics.rows \cup {db_analytics},
                           seq |-> analytics.seq + 1]
          /\ resp' = Response("POST /analytics/", 200, <<>>, {db_analytics}, {})
    /\ UNCHANGED <<cache, now, searchArgs, last, keyProbe, clearLog, dbVars, setLog, tables, callers>>

\* PUT /analytics/{analytics_id}: session.get, then setattr of every body field
UpdateAnalytics(token, analytics_id, user_id, total_watch_time) ==
    /\ user_id \in {u.id : u \in users}
    /\ \E found \in {{a \in analytics.rows : a.id = analytics_id}},
          db_analytics \in {AnalyticsRow(analytics_id, user_id, total_watch_time)} :
          /\ analytics' = IF found = {} THEN analytics
                          ELSE [analytics EXCEPT
                                  !.rows = (@ \ found) \cup {db_analytics}]
          /\ resp' = IF found = {}
                     THEN Response("PUT /analytics/{analytics_id}", 404,
                                   AnalyticsNotFound, {}, {})
                     ELSE Response("PUT /analytics/{analytics_id}", 200, <<>>,
                                   {db_analytics}, {})
    /\ UNCHANGED <<cache, now, searchArgs, last, keyProbe, clearLog, dbVars, setLog, tables, callers>>

\* DELETE /analytics/{analytics_id}: session.get, session.delete
DeleteAnalytics(token, analytics_id) ==
    /\ \E found \in {{a \in analytics.rows : a.id = analytics_id}} :
          /\ analytics' = [analytics EXCEPT !.rows = @ \ found]
          /\ resp' = IF found = {}
                     THEN Response("DELETE /analytics/{analytics_id}", 404,
                                   AnalyticsNotFound, {}, {})
                     ELSE Response("DELETE /analytics/{analytics_id}", 200, <<>>,
                                   {[message |-> "Analytics deleted successfully"]}, {})
    /\ UNCHANGED <<cache, now, searchArgs, last, keyProbe, clearLog, dbVars, setLog, tables, callers>>

\* a request to one of the four routes, carrying this token
AnalyticsCall(token) ==
    \/ GetAnalytics(token)
    \/ \E user_id \in 1..2, total_watch_time \in {0, 60} :
          CreateAnalytics(token, user_id, total_watch_time)
    \/ \E analytics_id \in 1..MaxAnalytics, user_id \in 1..2 :
          UpdateAnalytics(token, analytics_id, user_id, 90)
    \/ \E analytics_id \in 1..MaxAnalytics : DeleteAnalytics(token, analytics_id)

\* accounts, logins, and the Analytics routes called with every token
NextAnalytics ==
    \/ \E email \in Emails : \E username \in Usernames : Register(email, username)
    \/ \E email \in Emails : \E password \in Passwords : Login(email, password)
    \/ \E token \in TokenInputs : GetAnalytics(token)
    \/ \E token \in TokenInputs : \E user_id \in 1..2, total_watch_time \in {0, 60} :
          CreateAnalytics(token, user_id, total_watch_time)
    \/ \E token \in TokenInputs : \E analytics_id \in 1..MaxAnalytics, user_id \in 1..2 :
          UpdateAnalytics(token, analytics_id, user_id, 90)
    \/ \E token \in TokenInputs : \E analytics_id \in 1..MaxAnalytics :
          DeleteAnalytics(token, analytics_id)

SpecAnalytics == InitDb /\ [][NextAnalytics]_vars

-----------------------------------------------------------------------------
(* get_show_details on its own: which request fails, which episodes there are *)

\* the upstream's answers about show 1 (empty: it answers {} for the show)
DetailAnswers(empty, episodes) ==
    [show |-> IF empty THEN <<>>
              ELSE <<[id |-> 1, name |-> "One", type |-> "Scripted",
                      language |-> "English", genres |-> <<"Drama">>,
                      status |-> "Ended", runtime |-> 60,
                      premiered |-> "2020-01-01", ended |-> "2021-01-01",
                      rating |-> [average |-> 8], network |-> [name |-> "HBO"],
                      webChannel |-> [name |-> "Max"],
                      summary |-> <<"<", "p", ">", "H", "i", "<", "/", "p", ">">>,
                      schedule |-> [time |-> "21:00"]]>>,
     episodes |-> episodes,
     cast |-> <<[person |-> [id |-> 7, name |-> "Ann", image |-> [medium |-> "a.jpg"]],
                 character |-> [id |-> 70, name |-> "Lead"]]>>,
     crew |-> <<[person |-> [id |-> 8, name |-> "Bo", image |-> [medium |-> "b.jpg"]],
                 type |-> "Creator"]>>,
     akas |-> <<[name |-> "Uno", country |-> [name |-> "Chile"]]>>,
     images |-> <<[id |-> 3, type |-> "poster",
                   resolutions |-> [original |-> [url |-> "p.jpg"]]]>>,
     seasons |-> <<[id |-> 11, number |-> 1, episodeOrder |-> 2,
                    premiereDate |-> "2020-01-01", endDate |-> "2020-02-01"]>>]

\* the episodes lists: up to three of these episodes, in any order
EpisodeLists ==
    LET E == {[id |-> 101, season |-> 1], [id |-> 102, season |-> 2],
              [id |-> 103, season |-> 1]}
    IN UNION {{s \in [1..n -> E] : \A i, j \in 1..n : i # j => s[i] # s[j]} : n \in 0..3}

\* content_service.get_show_details(1): failing is the request that gets three
\* 500s if it is sent (0: none does), empty an upstream that answers {} for
\* the show
GetShowDetails(failing, empty, episodes) ==
    LET out == get_show_details(1,
                    [i \in 1..Len(DetailFetches) |->
                        [j \in 1..StopAfterAttempt |->
                            IF i = failing THEN HttpError(500) ELSE OkOutcome]],
                    DetailAnswers(empty, episodes))
    IN /\ last' = [op |-> "show_details", failing |-> failing, empty |-> empty,
                   episodes |-> episodes,
                   ok |-> out.ok, result |-> out.result, exc |-> out.exc,
                   upstream |-> out.upstream]
       /\ UNCHANGED <<cache, now, searchArgs, resp, keyProbe, clearLog, dbVars, extVars>>

NextDetails ==
    \E failing \in 0..Len(DetailFetches), empty \in BOOLEAN, episodes \in EpisodeLists :
        GetShowDetails(failing, empty, episodes)

SpecDetails == InitContent /\ [][NextDetails]_vars

-----------------------------------------------------------------------------
(* get_content_by_id over the shapes of the upstream's answer *)

\* show 1 with each optional field present, absent or null
ShowShapes ==
    {[ShowDetail(1, "One") EXCEPT !.opt = o] :
        o \in [OptionalFields -> {"present", "absent", "null"}]}

\* content_service.get_content_by_id("1", "tv") when the upstream's answer for
\* show 1 is response
GetContentOf(att, response) ==
    \E out \in {get_content_answered(cache, now, <<"1">>, TvType, att, response)} :
       /\ cache' = out.cache
       /\ last' = [op |-> "content_of", ok |-> out.ok, result |-> out.result,
                   exc |-> out.exc, hit |-> out.hit, upstream |-> out.upstream,
                   fetched |-> IF out.upstream > 0 /\ make_request(att).ok
                               THEN <<response>> ELSE <<>>]
       /\ UNCHANGED <<now, searchArgs, resp, keyProbe, clearLog, dbVars, extVars>>

NextShapes ==
    \E att \in OnMiss(content_cache_key(TvType, <<"1">>), FewAttempts(OkOutcome)) :
          \E response \in OnMiss(content_cache_key(TvType, <<"1">>), ShowShapes) :
             GetContentOf(att, response)

SpecShapes == InitContent /\ [][NextShapes]_vars

-----------------------------------------------------------------------------
(* _make_request in time: the attempts and the waits between them *)

\* wait_exponential(multiplier=1, min=4, max=10), with tenacity's exp_base of 2
WaitMultiplier == 1
WaitMin == 4
WaitMax == 10
ExpBase == 2

\* the clock stops a call from starting after this time
MaxRetryClock == 12

Max2(a, b) == IF a >= b THEN a ELSE b
Min2(a, b) == IF a <= b THEN a ELSE b

\* the exponential alone, without the clamp to [min, max]
wait_exponential_unclamped(attempt_number) ==
    WaitMultiplier * ExpBase ^ (attempt_number - 1)

\* the seconds slept after failed attempt attempt_number:
\* max(max(0, min), min(multiplier * exp_base ** (attempt_number - 1), max))
wait_exponential(attempt_number) ==
    Max2(Max2(0, WaitMin),
         Min2(WaitMultiplier * ExpBase ^ (attempt_number - 1), WaitMax))

\* no call of _make_request is under way
NoRequest == IF last.op = "request" THEN last.state = "done" ELSE TRUE

\* the call under way sleeps before its next attempt
Sleeping == IF last.op = "request" THEN last.state = "sleeping" ELSE FALSE

\* a call of _make_request starts; att is what the upstream does at each attempt
BeginRequest(att) ==
    /\ NoRequest
    /\ now <= MaxRetryClock
    /\ last' = [op |-> "request", state |-> "ready", att |-> att, starts |-> <<>>,
                waits |-> <<>>, wake |-> now, outcome |-> <<>>]
    /\ UNCHANGED <<cache, now, searchArgs, resp, keyProbe, clearLog, dbVars, extVars>>

\* one attempt: client.get and raise_for_status; a failure before the third
\* attempt is followed by a sleep, the third failure ends the call
Attempt ==
    /\ ~NoRequest
    /\ now = last.wake
    /\ LET n == Len(last.starts) + 1
           failed == last.att[n].kind # "ok"
           over == ~failed \/ n = StopAfterAttempt
       IN last' = [last EXCEPT
                     !.starts = Append(@, now),
                     !.state = IF over THEN "done" ELSE "sleeping",
                     !.waits = IF over THEN @ ELSE Append(@, wait_exponential(n)),
                     !.wake = IF over THEN @ ELSE now + wait_exponential(n),
                     !.outcome = IF over THEN <<make_request(last.att)>> ELSE @]
    /\ UNCHANGED <<cache, now, searchArgs, resp, keyProbe, clearLog, dbVars, extVars>>

\* a second passes, in a sleep or between calls
Second ==
    /\ IF Sleeping THEN now < last.wake ELSE NoRequest /\ now < MaxRetryClock
    /\ now' = now + 1
    /\ UNCHANGED <<cache, searchArgs, last, resp, keyProbe, clearLog, dbVars, extVars>>

NextRetry ==
    \/ \E att \in Attempts(OkOutcome) : BeginRequest(att)
    \/ Attempt
    \/ Second

SpecRetry == InitContent /\ [][NextRetry]_vars

-----------------------------------------------------------------------------
(* bucketlist.py, recommendations.py, custom_lists.py, analytics.py: the POSTs
   that insert a row referencing a Content row *)

\* rows the tables of these routes may hold together
MaxPostRows == 2

PostRows ==
    Cardinality(tables.bucketlist) + Cardinality(tables.recommendations)
        + Cardinality(tables.lists) + Cardinality(tables.list_items)
        + Cardinality(tables.history)

AlreadyInBucketList ==
    <<"C", "o", "n", "t", "e", "n", "t", " ", "a", "l", "r", "e", "a", "d", "y",
      " ", "i", "n", " ", "b", "u", "c", "k", "e", "t", " ", "l", "i", "s", "t">>

AlreadyRecommended ==
    <<"C", "o", "n", "t", "e", "n", "t", " ", "a", "l", "r", "e", "a", "d", "y",
      " ", "r", "e", "c", "o", "m", "m", "e", "n", "d", "e", "d">>

AlreadyInList ==
    <<"C", "o", "n", "t", "e", "n", "t", " ", "a", "l", "r", "e", "a", "d", "y",
      " ", "i", "n", " ", "l", "i", "s", "t">>

ListNotFound ==
    <<"L", "i", "s", "t", " ", "n", "o", "t", " ", "f", "o", "u", "n", "d">>

\* the selects without the one on Content
post_checks_unchecked(route, content_id, existing, already) ==
    IF existing # {}
    THEN [pass |-> FALSE, resp |-> Response(route, 400, already, {}, {})]
    ELSE [pass |-> TRUE, resp |-> NoResp]

\* the selects before the insert: the Content row, then the row already there
post_checks(route, content_id, existing, already) ==
    IF content_id \notin ContentTable
    THEN [pass |-> FALSE, resp |-> Response(route, 404, ContentNotFound, {}, {})]
    ELSE IF existing # {}
    THEN [pass |-> FALSE, resp |-> Response(route, 400, already, {}, {})]
    ELSE [pass |-> TRUE, resp |-> NoResp]

\* the body the four handlers share: the checks, then add, commit, refresh of
\* a row of owner (the user, or the list) and content_id; dedupe tells whether
\* the handler looks for the row first
post_content_row(route, table, auth, owner, dedupe, already, content_id) ==
    /\ LET rows == tables[table]
           existing == IF dedupe
                       THEN {r \in rows : r.owner = owner /\ r.content_id = content_id}
                       ELSE {}
           check == post_checks(route, content_id, existing, already)
           db_item == [id |-> Cardinality(rows) + 1, owner |-> owner,
                       content_id |-> content_id]
           stored == auth.ok /\ check.pass
       IN  /\ stored => PostRows < MaxPostRows
           /\ tables' = IF stored THEN [tables EXCEPT ![table] = @ \cup {db_item}]
                        ELSE tables
           /\ resp' = IF ~auth.ok THEN Deny(route, auth)
                      ELSE IF check.pass THEN Response(route, 200, <<>>, {db_item}, {})
                      ELSE check.resp
    /\ UNCHANGED <<cache, now, searchArgs, last, keyProbe, clearLog, dbVars, analytics,
                   setLog, callers>>

\* POST /bucketlist
add_to_bucket_list(token, content_id) ==
    post_content_row("POST /bucketlist", "bucketlist",
                     get_current_user(token, now, users),
                     get_current_user(token, now, users).user[1].id,
                     TRUE, AlreadyInBucketList, content_id)

\* POST /recommendations
create_recommendation(token, content_id) ==
    post_content_row("POST /recommendations", "recommendations",
                     get_current_user(token, now, users),
                     get_current_user(token, now, users).user[1].id,
                     TRUE, AlreadyRecommended, content_id)

\* POST /analytics/history: no select of a row already there
add_watch_history(token, content_id) ==
    post_content_row("POST /analytics/history", "history",
                     get_current_user(token, now, users),
                     get_current_user(token, now, users).user[1].id,
                     FALSE, <<>>, content_id)

\* POST /lists
create_custom_list(token) ==
    /\ LET auth == get_current_user(token, now, users)
           db_list == [id |-> Cardinality(tables.lists) + 1, owner |-> auth.user[1].id]
       IN  /\ auth.ok => PostRows < MaxPostRows
           /\ tables' = IF auth.ok THEN [tables EXCEPT !.lists = @ \cup {db_list}]
                        ELSE tables
           /\ resp' = IF ~auth.ok THEN Deny("POST /lists", auth)
                      ELSE Response("POST /lists", 200, <<>>, {db_list}, {})
    /\ UNCHANGED <<cache, now, searchArgs, last, keyProbe, clearLog, dbVars, analytics,
                   setLog, callers>>

\* select(CustomList).where(id == list_id).where(user_id == current_user.id)
own_list(token, list_id) ==
    {l \in tables.lists :
        /\ l.id = list_id
        /\ l.owner = get_current_user(token, now, users).user[1].id}

\* POST /lists/{list_id}/items: the list must be the caller's before anything
\* else is looked at
add_to_custom_list(token, list_id, content_id) ==
    IF get_current_user(token, now, users).ok /\ own_list(token, list_id) = {}
    THEN /\ resp' = Response("POST /lists/{list_id}/items", 404, ListNotFound, {}, {})
         /\ UNCHANGED <<cache, now, searchArgs, last, keyProbe, clearLog, dbVars,
                        extVars>>
    ELSE post_content_row("POST /lists/{list_id}/items", "list_items",
                          get_current_user(token, now, users), list_id,
                          TRUE, AlreadyInList, content_id)

\* the content_id values sent: one with a Content row, and the ones without
PostedContentIds == {1} \cup (ContentIdInputs \ ContentTable)

\* the tokens sent: none, and the ones the logins returned
PostTokens == {NoToken} \cup {tokens[e] : e \in Emails}

NextPosts ==
    \/ Register("a@x", "ann")
    \/ Register("b@x", "bob")
    \/ \E email \in Emails : Login(email, GoodPassword)
    \/ \E token \in PostTokens : \E content_id \in PostedContentIds :
          Add(token, content_id)
    \/ \E token \in PostTokens : \E content_id \in PostedContentIds :
          add_to_bucket_list(token, content_id)
    \/ \E token \in PostTokens : \E content_id \in PostedContentIds :
          create_recommendation(token, content_id)
    \/ \E token \in PostTokens : \E content_id \in PostedContentIds :
          add_watch_history(token, content_id)
    \/ \E token \in PostTokens : create_custom_list(token)
    \/ \E token \in PostTokens : \E list_id \in 1..MaxPostRows :
       \E content_id \in PostedContentIds : add_to_custom_list(token, list_id, content_id)

SpecPosts == InitDb /\ [][NextPosts]_vars

-----------------------------------------------------------------------------
(* goals.py: POST /goals/achievements/check *)

\* UserAchievement rows the model lets the table hold
MaxAwards == 3

\* table Achievement: one series watched, two hours watched, and a type the
\* handler does not know
AchievementTable ==
    {[id |-> 1, achievement_type |-> "series", required_count |-> 1],
     [id |-> 2, achievement_type |-> "hours", required_count |-> 2],
     [id |-> 3, achievement_type |-> "streak", required_count |-> 0]}

\* every Content row is a series, every WatchHistory row lasts an hour
HistoryCount(watch_history, achievement_type) ==
    IF achievement_type = "movies" THEN 0 ELSE Cardinality(watch_history)

\* iterating what select(User.watch_history).first() returned, when that is
\* not a list of rows
NotIterableMessage ==
    <<"o", "b", "j", "e", "c", "t", " ", "i", "s", " ", "n", "o", "t", " ",
      "i", "t", "e", "r", "a", "b", "l", "e">>

\* the achievements the loop looks at: not yet among the user's rows, of a type
\* it can count
unearned(UA, user_id) ==
    {a \in AchievementTable :
        /\ a.id \notin {ua.achievement_id : ua \in {r \in UA : r.user_id = user_id}}
        /\ a.achievement_type \in {"movies", "series", "hours"}}

\* lines 145-176: the selects and the loop; the ids of the achievements to award
new_achievements(UA, watch_history, user_id) ==
    {a.id : a \in {u \in unearned(UA, user_id) :
                     HistoryCount(watch_history, u.achievement_type) >= u.required_count}}

\* lines 171-185: the rows added, committed and returned
award(UA, user_id, new) ==
    LET Rank(id) == Cardinality({n \in new : n <= id})
    IN {[id |-> Cardinality(UA) + Rank(n), user_id |-> user_id, achievement_id |-> n] :
           n \in new}

\* POST /goals/achievements/check, handled without interruption; iterable tells
\* whether the watch-history select gave the rows of the user
check_achievements(token, iterable) ==
    /\ LET auth == get_current_user(token, now, users)
           user_id == auth.user[1].id
           UA == tables.user_achievements
           watch_history == {h \in tables.history : h.owner = user_id}
           new == new_achievements(UA, watch_history, user_id)
           raises == ~iterable /\ unearned(UA, user_id) # {}
       IN  /\ (auth.ok /\ ~raises) => Cardinality(UA) + Cardinality(new) <= MaxAwards
           /\ tables' = IF auth.ok /\ ~raises
                        THEN [tables EXCEPT
                                !.user_achievements = @ \cup award(UA, user_id, new)]
                        ELSE tables
           /\ resp' = IF ~auth.ok THEN Deny("POST /goals/achievements/check", auth)
                      ELSE IF raises
                      THEN Response("POST /goals/achievements/check", 500,
                                    NotIterableMessage, {}, {})
                      ELSE Response("POST /goals/achievements/check", 200, <<>>,
                                    award(UA, user_id, new), {})
    /\ UNCHANGED <<cache, now, searchArgs, last, keyProbe, clearLog, dbVars, analytics,
                   setLog, callers>>

\* the check suspended after its selects and its loop, before the commit (a
\* second server process handles other requests meanwhile)
CheckRead(token) ==
    /\ inflight = Idle
    /\ LET auth == get_current_user(token, now, users)
           user_id == auth.user[1].id
           new == new_achievements(tables.user_achievements,
                                   {h \in tables.history : h.owner = user_id}, user_id)
       IN  /\ auth.ok
           /\ new # {}
           /\ inflight' = [op |-> "check", user_id |-> user_id, new |-> new]
    /\ UNCHANGED <<users, watchlist, nextId, tokens, ledger, resp>>
    /\ UNCHANGED <<cache, now, searchArgs, last, keyProbe, clearLog, extVars>>

\* the suspended check resumes: lines 181-187
CheckCommit ==
    /\ inflight.op = "check"
    /\ Cardinality(tables.user_achievements) + Cardinality(inflight.new) <= MaxAwards
    /\ LET rows == award(tables.user_achievements, inflight.user_id, inflight.new)
       IN  /\ tables' = [tables EXCEPT !.user_achievements = @ \cup rows]
           /\ resp' = Response("POST /goals/achievements/check", 200, <<>>, rows, {})
    /\ inflight' = Idle
    /\ UNCHANGED <<users, watchlist, nextId, tokens, ledger>>
    /\ UNCHANGED <<cache, now, searchArgs, last, keyProbe, clearLog, analytics, setLog, callers>>

NextAchievements ==
    \/ Register("a@x", "ann")
    \/ Register("b@x", "bob")
    \/ \E email \in Emails : Login(email, GoodPassword)
    \/ \E token \in PostTokens : add_watch_history(token, 1)
    \/ \E token \in PostTokens : \E iterable \in BOOLEAN : check_achievements(token, iterable)
    \/ \E token \in PostTokens : CheckRead(token)
    \/ CheckCommit

SpecAchievements == InitDb /\ [][NextAchievements]_vars

-----------------------------------------------------------------------------
(* get_content_by_id called concurrently for one cold key: each call is     *)
(* followed through its awaits, the cache lookup, the upstream request and  *)
(* the cache write                                                          *)

ColdShow == <<"1">>

ColdKey == content_cache_key(TvType, ColdShow)

\* what the upstream answers for the show; it may change between two requests
ShowVersions == {UpstreamShows[ColdShow], [UpstreamShows[ColdShow] EXCEPT !.name = "Uno"]}

\* the call as get_content_by_id starts it
CallBase ==
    [key |-> ColdKey, ok |-> TRUE, result |-> <<>>, exc |-> <<>>, cache |-> cache,
     hit |-> FALSE, reads |-> 1, writes |-> 0, upstream |-> 0]

\* lines 134-137: await get_cached_data(cache_key); if cached_data: return it
CallerLookup(i) ==
    /\ callers.pc[i] = "start"
    /\ LET cached == get_cached_data(cache, ColdKey, now)
       IN callers' = IF Truthy(cached)
                     THEN [callers EXCEPT !.pc[i] = "done", !.result[i] = cached,
                                          !.hit[i] = TRUE]
                     ELSE [callers EXCEPT !.pc[i] = "miss"]
    /\ UNCHANGED <<cache, now, searchArgs, last, resp, keyProbe, clearLog, dbVars,
                   analytics, setLog, tables>>

\* line 140: await self._make_request(f"shows/{tvmaze_id}"), its retries included
CallerFetch(i, att, response) ==
    /\ callers.pc[i] = "miss"
    /\ LET r == make_request(att)
       IN callers' = IF r.ok
                     THEN [callers EXCEPT !.pc[i] = "fetched",
                                          !.held[i] = <<[r |-> r, response |-> response]>>,
                                          !.fetches = @ + 1]
                     ELSE [callers EXCEPT !.pc[i] = "raised",
                                          !.exc[i] = content_fetch(CallBase, cache, now,
                                                         ColdKey, r, response).exc,
                                          !.fetches = @ + 1]
    /\ UNCHANGED <<cache, now, searchArgs, last, resp, keyProbe, clearLog, dbVars,
                   analytics, setLog, tables>>

\* lines 142-164: the dict literal, await set_cached_data(...), return
CallerSet(i) ==
    /\ callers.pc[i] = "fetched"
    /\ LET out == content_fetch(CallBase, cache, now, ColdKey, callers.held[i][1].r,
                                callers.held[i][1].response)
       IN  /\ cache' = out.cache
           /\ callers' = [callers EXCEPT
                            !.pc[i] = IF out.ok THEN "done" ELSE "raised",
                            !.result[i] = out.result, !.exc[i] = out.exc,
                            !.sets = IF out.writes > 0 THEN Append(@, out.result[1]) ELSE @]
    /\ UNCHANGED <<now, searchArgs, last, resp, keyProbe, clearLog, dbVars,
                   analytics, setLog, tables>>

NextCallers ==
    \/ \E i \in 1..NumCallers : CallerLookup(i)
    \/ \E i \in 1..NumCallers : \E att \in FewAttempts(OkOutcome) :
          \E response \in ShowVersions : CallerFetch(i, att, response)
    \/ \E i \in 1..NumCallers : CallerSet(i)

SpecCallers == InitContent /\ [][NextCallers]_vars

-----------------------------------------------------------------------------
(* Properties *)

\* the last call was a search with a query of at least 2 characters that repeated
\* the call before it, inside the TTL window of that call's result
RepeatedSearchInWindow ==
    /\ last.op = "search"
    /\ Len(Strip(last.query)) >= 2
    /\ last.prev # <<>>
    /\ last.time < last.prev[1].until

C4_ShortQueryShortCircuits ==
    (last.op = "search" /\ Len(Strip(last.query)) < 2) =>
        /\ last.ok
        /\ last.result[1].body = [results |-> <<>>, page |-> last.page,
                                  total_pages |-> 0, total_results |-> 0]
        /\ last.reads = 0
        /\ last.writes = 0
        /\ last.upstream = 0
        /\ last.after = last.before

\* a blank-padded one-character query on page 2, with the cache populated
C4_Witness ==
    /\ last.op = "search"
    /\ last.query = <<" ", "a", " ">>
    /\ last.page = 2
    /\ last.before # EmptyCache
    /\ last.after = last.before

\* s.split(sep), for a one-character sep
RECURSIVE Split(_, _)
Split(s, sep) ==
    IF \A i \in 1..Len(s) : s[i] # sep THEN <<s>>
    ELSE LET i == CHOOSE j \in 1..Len(s) : s[j] = sep /\ \A k \in 1..(j - 1) : s[k] # sep
         IN <<SubSeq(s, 1, i - 1)>> \o Split(SubSeq(s, i + 1, Len(s)), sep)

\* the n-th field of a key counted from its end
FieldFromEnd(key, n) == Split(key, ":")[Len(Split(key, ":")) - n + 1]

\* C5: two searches with the same content_type, language and page and different
\* query texts never get the same cache key, and an omitted content_type or
\* language puts the sentinel "all" in the key.
C5_SearchKeyDistinguishesQueries ==
    keyProbe.state = "built" =>
        /\ keyProbe.q1 # keyProbe.q2 => keyProbe.k1 # keyProbe.k2
        /\ keyProbe.content_type = NoneStr =>
               FieldFromEnd(keyProbe.k1, 3) = <<"a", "l", "l">>
        /\ keyProbe.language = NoneStr =>
               FieldFromEnd(keyProbe.k1, 2) = <<"a", "l", "l">>

\* keys built for two queries that differ by a trailing ":all", filters omitted
C5_Witness ==
    /\ keyProbe.state = "built"
    /\ keyProbe.q1 = <<"a", "b">>
    /\ keyProbe.q2 = <<"a", "b", ":", "a", "l", "l">>
    /\ keyProbe.content_type = NoneStr
    /\ keyProbe.language = NoneStr
    /\ keyProbe.k1 # keyProbe.k2

\* C2 as stated: once get_content_by_id has cached X and Y, after
\* clear_content_cache(X) the next get_content_by_id(X) misses the cache and asks
\* the upstream, and the next get_content_by_id(Y) is served from the cache with
\* no upstream call.
C2_ClearInvalidatesThatIdOnly ==
    /\ (last.op = "get_content" /\ last.mark = "cleared") =>
           (~last.hit /\ last.upstream >= 1)
    /\ (last.op = "get_content" /\ last.mark = "kept" /\ last.time < last.markUntil) =>
           (last.hit /\ last.upstream = 0)

\* C3 as stated: when every attempt of a _make_request call is answered 429, the
\* caller of the content route gets a 500 whose message contains "rate limit"
\* (case-insensitive).
C3_RateLimitedMessage ==
    (resp.route = "GET /content/search" /\ last.op = "search" /\ last.all429) =>
        /\ resp.status = 500
        /\ Contains(Lower(resp.detail), <<"r", "a", "t", "e", " ", "l", "i", "m", "i", "t">>)

\* C10 as stated: GET /content/shows/{tvmaze_id} for an ID the upstream does not
\* have answers 404 "Content not found".
C10_MissingShowIs404 ==
    (/\ resp.route = "GET /content/shows/{tvmaze_id}"
     /\ last.op = "get_content"
     /\ last.tvmaze_id \notin DOMAIN UpstreamShows
     /\ last.all404) =>
        /\ resp.status = 404
        /\ resp.detail = <<"C", "o", "n", "t", "e", "n", "t", " ", "n", "o", "t", " ",
                           "f", "o", "u", "n", "d">>

\* the caller's watchlist holds the content
InWatchlist(W, user_id, content_id) ==
    \E r \in W : r.user_id = user_id /\ r.content_id = content_id

\* the words the duplicate's answer carries
AlreadyInWatchlistPhrase == <<"a", "l", "r", "e", "a", "d", "y", " ", "i", "n", " ", "w", "a",
      "t", "c", "h", "l", "i", "s", "t">>

\* C6: an authenticated POST /watchlist whose content_id is already in the
\* caller's watchlist is answered 400 "Content already in watchlist" and
\* leaves the Watchlist table as it was.
C6_DuplicatePostRejected ==
    [][resp'.route = "POST /watchlist" =>
        \A token \in TokenInputs : \A content_id \in ContentIdInputs :
            (/\ Add(token, content_id)
             /\ get_current_user(token, now, users).ok
             /\ InWatchlist(watchlist, get_current_user(token, now, users).user[1].id,
                            content_id))
            => /\ resp'.status = 400
               /\ Contains(Lower(resp'.detail), AlreadyInWatchlistPhrase)
               /\ watchlist' = watchlist]_vars

\* a duplicate POST has been rejected
C6_Witness ==
    /\ resp.route = "POST /watchlist"
    /\ resp.status = 400
    /\ resp.detail = AlreadyInWatchlist
    /\ watchlist # {}

\* the ids of the rows the user POSTed and has not deleted
Posted(user_id) == {p[2] : p \in {q \in ledger : q[1] = user_id}}

\* C7: GET /watchlist with a token that login issued returns exactly the rows
\* the caller added by a successful POST and has not since deleted (none for a
\* user who has added nothing), and every unexpired token that login returned
\* authenticates the user who logged in.
C7_GetReturnsPostedItems ==
    [][/\ resp'.route = "GET /watchlist" =>
            \A token \in TokenInputs :
                (GetWatchlist(token) /\ get_current_user(token, now, users).ok)
                => /\ resp'.status = 200
                   /\ resp'.body \subseteq watchlist
                   /\ {r.id : r \in resp'.body} =
                         Posted(get_current_user(token, now, users).user[1].id)
       /\ \A e \in Emails :
            (tokens'[e].kind = "jwt" /\ now' < tokens'[e].exp)
            => /\ get_current_user(tokens'[e], now', users').ok
               /\ get_current_user(tokens'[e], now', users').user[1].email = e]_vars

\* a user who added one row reads it back while another user has a row too
C7_Witness ==
    /\ resp.route = "GET /watchlist"
    /\ resp.status = 200
    /\ Cardinality(resp.body) = 1
    /\ resp.body \subseteq watchlist
    /\ Cardinality(watchlist) = 2

\* C8: a call to a protected endpoint with a missing, malformed, expired or
\* unknown-subject token is answered 401 with WWW-Authenticate: Bearer and one
\* message (the one a malformed token gets on /watchlist), and changes no
\* stored state.
C8_RejectedUniformly ==
    [][\A token \in TokenInputs :
        (TokenCase(token, now, users) # "valid" /\ ProtectedCall(token))
        => /\ resp'.status = 401
           /\ WWWAuthenticateBearer \in resp'.headers
           /\ resp'.detail = get_current_user(GarbageToken, now, users).exc[1].detail
           /\ UNCHANGED <<users, watchlist, nextId, inflight, ledger>>]_vars

\* a row with the email or the username is in the table
Registered(U, email, username) ==
    \E u \in U : u.email = email \/ u.username = username

\* C9: POST /auth/register with an email or a username that a User row has
\* when the handler looks, or when it commits, is answered 400 and adds no
\* row; no two User rows share an email, whatever the interleaving.
C9_RegisterRejectsDuplicates ==
    [][/\ resp'.route = "POST /auth/register" =>
            /\ \A email \in Emails : \A username \in Usernames :
                  (Register(email, username) /\ Registered(users, email, username))
                  => (resp'.status = 400 /\ users' = users)
            /\ (RegisterCommit /\ Registered(users, inflight.email, inflight.username))
                  => (resp'.status = 400 /\ users' = users)
       /\ \A u1 \in users' : \A u2 \in users' : u1.email = u2.email => u1 = u2]_vars

\* a register that passed its selects was rejected by the commit, after a
\* concurrent register of the same email
C9_Witness ==
    /\ resp.route = "POST /auth/register"
    /\ resp.status = 400
    /\ resp.detail = IntegrityErrorStr
    /\ users # {}

\* C12: a call of get_content_by_id reads the cache once; when it misses, the
\* _make_request under it sends at least one and at most three upstream
\* requests: every request before the last one failed, the call returns exactly
\* when the last one succeeded, and it gives up only after the third failure;
\* a hit sends none
C12_AtMostThreeAttempts ==
    last.op = "get_content" =>
        /\ last.reads = 1
        /\ last.hit => last.upstream = 0
        /\ ~last.hit =>
              /\ last.upstream \in 1..StopAfterAttempt
              /\ \A i \in 1..(last.upstream - 1) : last.att[i].kind # "ok"
              /\ last.ok <=> last.att[last.upstream].kind = "ok"
              /\ ~last.ok => last.upstream = StopAfterAttempt

\* the third request succeeded after two failures
C12_Witness ==
    /\ last.op = "get_content" /\ last.ok /\ ~last.hit
    /\ last.upstream = StopAfterAttempt
    /\ last.att[1].kind # "ok" /\ last.att[2].kind # "ok"

\* C13: a get_cached_data of a key later than s + t, where s is the time of the
\* key's last set_cached_data and t the ttl that call passed (default_ttl when it
\* passed none), returns None
C13_ExpiredKeyMisses ==
    (last.op = "get" /\ last.key \in DOMAIN setLog) =>
        LET s == setLog[last.key].at
            t == IF setLog[last.key].ttl = NoTtl THEN default_ttl
                 ELSE setLog[last.key].ttl
        IN last.time > s + t => last.result = <<>>

\* a get, later than s + t, of a key that was set with its own ttl and not since
C13_Witness ==
    /\ last.op = "get" /\ last.key \in DOMAIN setLog
    /\ setLog[last.key].ttl = 900
    /\ last.time > setLog[last.key].at + 900
    /\ last.key \in DOMAIN cache
    /\ last.result = <<>>

\* the ttl each operation's cache write is to carry
OperationTTL ==
    [op \in {"content", "credits", "genres", "search", "similar", "trending"} |->
        IF op \in {"content", "credits", "genres"} THEN 86400 ELSE 3600]

\* C14: every entry an operation writes under its own key carries the ttl of that
\* operation: 86400 for content detail, genres and credits, 3600 for search,
\* similar and trending; the only other write is the content detail entry that
\* the similar operation has get_content_by_id write, with 86400
C14_WritesUseOperationTTL ==
    last.op \in DOMAIN OperationTTL =>
        \A w \in last.written :
            IF w.key = last.key THEN w.ttl = OperationTTL[last.op]
            ELSE /\ last.op = "similar"
                 /\ StartsWith(w.key, ContentPrefix)
                 /\ w.ttl = OperationTTL["content"]

\* a similar call wrote its page and, under it, the content detail entry
C14_Witness ==
    /\ last.op = "similar"
    /\ Cardinality(last.written) = 2

\* the keys that the operations about show X use
KeysOfShow(X) ==
    {content_cache_key(TvType, X), credits_cache_key(TvType, X),
     similar_cache_key(TvType, X, 1)}

\* C15: after clear_content_cache(X) has returned, the cache holds no content,
\* credits or similar entry keyed by X
C15_ClearRemovesEveryNamespace ==
    (last.op = "clear" /\ last.ok /\ last.tvmaze_id # <<>>) =>
        KeysOfShow(last.tvmaze_id[1]) \cap DOMAIN cache = {}

\* C16: clear_content_cache() without an ID leaves no key that starts with
\* "content:" and leaves every other key as it was
C16_ClearWithoutIdSweepsContent ==
    [][ClearOp(<<>>) =>
          /\ \A k \in DOMAIN cache' : ~StartsWith(k, ContentPrefix \o <<":">>)
          /\ \A k \in DOMAIN cache :
                ~StartsWith(k, ContentPrefix \o <<":">>) =>
                    k \in DOMAIN cache' /\ cache'[k] = cache[k]]_vars

\* C17: a call of a content operation that repeats the successful call before it,
\* parameters and all, makes no upstream request
C17_EveryOperationCaches ==
    (last.op \in {"schedule", "people", "index", "search", "content", "credits",
                  "similar", "trending", "genres"} /\ last.repeats) =>
        last.upstream = 0

\* C18: a call of a caching operation that finds an unexpired entry under its key
\* returns what the entry stores and makes no upstream request, whatever the
\* stored value is
C18_StoredValueReturnedVerbatim ==
    (/\ last.op \in {"content", "credits", "similar", "trending", "genres", "search"}
     /\ last.held # <<>>) =>
        /\ last.ok
        /\ last.result = <<JsonLoads(last.held[1])>>
        /\ last.upstream = 0

\* C19: two logical queries get the same cache key exactly when they are the
\* same query
C19_KeysInjective ==
    keyProbe.state = "keys" => (keyProbe.ka = keyProbe.kb <=> keyProbe.a = keyProbe.b)

\* C20: when the upstream answers the list request of a search, similar,
\* schedule, people-search or index call with an empty list, the call returns
\* (it does not raise) an empty response of its shape: a page with no results
\* and total_results 0, or an empty list
C20_EmptyUpstreamGivesEmptyResponse ==
    (/\ last.op \in {"search", "similar", "schedule", "people", "index"}
     /\ last.emptyAnswer) =>
        /\ last.ok
        /\ last.exc = <<>>
        /\ last.result # <<>>
        /\ IF last.op \in {"search", "similar"}
           THEN /\ last.result[1].kind = "dict"
                /\ last.result[1].body.results = <<>>
                /\ last.result[1].body.total_results = 0
           ELSE last.result[1] = ListDoc(<<>>)

\* the genre query of a similar call was answered with an empty list
C20_Witness ==
    /\ last.op = "similar" /\ last.emptyAnswer
    /\ last.upstream >= 2
    /\ last.result[1].body.total_results = 0

\* C11, for the /analytics routes: a request that carries no valid token is
\* answered 401, and a request of user B gets back no row of another user and
\* leaves every row of another user in the table as it was
C11_AnalyticsScopedToCaller ==
    [][\A token \in TokenInputs :
         AnalyticsCall(token) =>
            LET auth == get_current_user(token, now, users)
                own == IF auth.ok THEN {auth.user[1].id} ELSE {}
            IN /\ ~auth.ok => resp'.status = 401
               /\ resp'.route = "GET /analytics/" =>
                     \A r \in resp'.body : r.user_id \in own
               /\ \A r \in analytics.rows : r.user_id \notin own => r \in analytics'.rows]_vars

C24_ShowDetailsAllOrNothing ==
    last.op = "show_details" =>
        IF last.failing # 0 /\ (last.failing = 1 \/ ~last.empty)
        THEN ~last.ok /\ last.result = <<>>
        ELSE /\ last.ok
             /\ IF last.empty
                THEN last.result = <<>> /\ last.upstream = 1
                ELSE /\ last.upstream = Len(DetailFetches)
                     /\ LET groups == last.result[1].body.episodes
                            InSeason(s) ==
                                SelectSeq(last.episodes, LAMBDA e : e.season = s)
                        IN /\ DOMAIN groups = {last.episodes[i].season :
                                                  i \in 1..Len(last.episodes)}
                           /\ \A s \in DOMAIN groups : groups[s] = InSeason(s)

\* three episodes of two seasons, the seasons interleaved, were grouped
C24_Witness ==
    /\ last.op = "show_details" /\ last.ok /\ ~last.empty
    /\ Len(last.episodes) = 3
    /\ last.episodes[1].season = 1 /\ last.episodes[2].season = 2
    /\ Len(last.result[1].body.episodes[1]) = 2

\* C21: a search that fetched an upstream answer returns exactly the shows of
\* that answer, in upstream order, whose type contains the content_type filter
\* as a case-insensitive substring and whose language equals the language
\* filter case-insensitively; an omitted filter excludes nothing
C21_FiltersSelectExactly ==
    (last.op = "search" /\ last.fetched # <<>>) =>
        LET Keeps(hit) ==
                /\ hit.show # <<>>
                /\ \/ ~StrTruthy(last.content_type)
                   \/ /\ hit.show[1].type # NoneStr
                      /\ Contains(Lower(hit.show[1].type), Lower(last.content_type))
                /\ \/ ~StrTruthy(last.language)
                   \/ /\ hit.show[1].language # NoneStr
                      /\ Lower(hit.show[1].language) = Lower(last.language)
            kept == SelectSeq(last.fetched[1], Keeps)
        IN /\ last.ok
           /\ Len(last.result[1].body.results) = Len(kept)
           /\ \A i \in 1..Len(kept) :
                last.result[1].body.results[i].id = kept[i].show[1].id

\* C30: a response search_content builds itself (on the short-query path or
\* after a cache miss) has total_results equal to the number of results,
\* total_pages 1 when there are results and 0 when there are none, the page that
\* was asked for, and the twelve normalized keys in every result
C30_ResponseShape ==
    (last.op = "search" /\ last.ok /\ ~last.hit) =>
        LET d == last.result[1].body
        IN /\ d.total_results = Len(d.results)
           /\ d.total_pages = (IF d.results # <<>> THEN 1 ELSE 0)
           /\ d.page = last.page
           /\ \A i \in 1..Len(d.results) :
                DOMAIN d.results[i] =
                    {"id", "title", "overview", "poster_url", "backdrop_url",
                     "release_date", "rating", "genres", "status", "runtime", "type",
                     "language"}

\* page 2 was asked for and the upstream's two shows came back
C30_Witness ==
    /\ last.op = "search" /\ last.ok /\ ~last.hit /\ last.upstream > 0
    /\ last.page = 2
    /\ Len(last.result[1].body.results) = 2

\* C25: whatever the shape of the upstream's answer (summary, image, rating,
\* network and webChannel each present, absent or null), get_content_by_id
\* returns a document with the sixteen keys of the normalized shape, in which
\* the fields flattened from a field the upstream did not provide are null
C25_EveryKeyNullWhenMissing ==
    (last.op = "content_of" /\ last.fetched # <<>>) =>
        /\ last.ok
        /\ LET opt == last.fetched[1].opt
               body == last.result[1].body
           IN /\ DOMAIN body =
                    {"id", "title", "overview", "poster_url", "backdrop_url",
                     "release_date", "rating", "genres", "status", "runtime", "type",
                     "network", "schedule", "web_channel", "externals", "updated"}
              /\ opt["summary"] # "present" => body.overview = NoneStr
              /\ opt["image"] # "present" =>
                    body.poster_url = NoneValue /\ body.backdrop_url = NoneValue
              /\ opt["rating"] # "present" => body.rating = NoneValue
              /\ opt["network"] # "present" => body.network = NoneValue
              /\ opt["webChannel"] # "present" => body.web_channel = NoneValue

\* C22: within one call of _make_request the attempts come one after the other,
\* as many as the retry rule allows, and every retry comes after a wait of at
\* least 4 and at most 10 seconds, a wait never shorter than the one before it
C22_BackoffWithinBounds ==
    last.op = "request" =>
        /\ Len(last.starts) <= StopAfterAttempt
        /\ \A i \in 2..Len(last.starts) :
              /\ last.starts[i] - last.starts[i - 1] >= WaitMin
              /\ last.starts[i] - last.starts[i - 1] <= WaitMax
              /\ last.starts[i] - last.starts[i - 1] = last.waits[i - 1]
        /\ \A i \in 2..Len(last.waits) : last.waits[i - 1] <= last.waits[i]
        /\ last.state = "done" => Len(last.starts) = last.outcome[1].attempts

\* a call that was retried twice has ended
C22_Witness ==
    /\ last.op = "request" /\ last.state = "done"
    /\ Len(last.starts) = StopAfterAttempt /\ Len(last.waits) = 2

\* C27: the Watchlist table never holds two rows with the same user_id and the
\* same content_id
C27_OneRowPerUserAndContent ==
    \A r1, r2 \in watchlist :
        (r1.user_id = r2.user_id /\ r1.content_id = r2.content_id) => r1.id = r2.id

\* C26: a POST of an authenticated caller (for a custom list: to a list of
\* their own) whose content_id has no Content row is answered 404 "Content not
\* found" and inserts no row, on /watchlist, /bucketlist, /recommendations,
\* /lists/{list_id}/items and /analytics/history
C26_MissingContentIs404 ==
    [][\A token \in PostTokens : \A content_id \in ContentIdInputs \ ContentTable :
        (/\ get_current_user(token, now, users).ok
         /\ \/ Add(token, content_id)
            \/ add_to_bucket_list(token, content_id)
            \/ create_recommendation(token, content_id)
            \/ add_watch_history(token, content_id)
            \/ \E list_id \in 1..MaxPostRows :
                  /\ own_list(token, list_id) # {}
                  /\ add_to_custom_list(token, list_id, content_id))
        => /\ resp'.status = 404
           /\ resp'.detail = ContentNotFound
           /\ UNCHANGED <<watchlist, tables>>]_vars

\* the owner of a list was told that the content to add to it does not exist
C26_Witness ==
    /\ resp.route = "POST /lists/{list_id}/items"
    /\ resp.status = 404 /\ resp.detail = ContentNotFound
    /\ tables.lists # {} /\ tables.list_items = {}

Finished(i) == callers.pc[i] \in {"done", "raised"}

\* C23: concurrent calls of get_content_by_id for one cold key are not
\* coalesced: a call that missed the cache returns only what its own upstream
\* request gave, so at most one request per call is made; every call that
\* returns gives a complete normalized document, of its own request or one
\* found in the cache; and once all calls have finished the cache holds, when
\* any value was set, one entry, under the key, with the value set last
C23_NotCoalescedLastSetWins ==
    /\ callers.fetches <= NumCallers
    /\ callers.fetches = Cardinality({i \in 1..NumCallers :
                                         callers.pc[i] \in {"fetched", "raised"}
                                         \/ (callers.pc[i] = "done" /\ ~callers.hit[i])})
    /\ \A i \in 1..NumCallers :
          callers.pc[i] = "done" =>
             /\ Len(callers.result[i]) = 1
             /\ IF callers.hit[i]
                THEN \E n \in 1..Len(callers.sets) : callers.result[i][1] = callers.sets[n]
                ELSE callers.result[i][1] = processed_content(callers.held[i][1].response)
    /\ (\A i \in 1..NumCallers : Finished(i)) =>
          IF callers.sets = <<>> THEN DOMAIN cache = {}
          ELSE /\ DOMAIN cache = {ColdKey}
               /\ get_cached_data(cache, ColdKey, now)
                    = <<callers.sets[Len(callers.sets)]>>

\* every call has finished, each made its own upstream request, and the values
\* set were not all the same
C23_Witness ==
    /\ \A i \in 1..NumCallers : callers.pc[i] = "done" /\ ~callers.hit[i]
    /\ callers.fetches = NumCallers
    /\ callers.sets[1] # callers.sets[Len(callers.sets)]

====
